---- MODULE Spec2Model ----
(***************************************************************************)
(* Model of the electricity-prediction service: the CSV window validator   *)
(* (backend/utils/validators.py), the scaler/model adapter                 *)
(* (backend/services/predictor.py) and the request handlers that compose   *)
(* them (backend/app.py).                                                  *)
(*                                                                         *)
(* Physical quantities are integers in thousandths of the CSV unit, so the *)
(* sample value 4.628 is 4628 and the range [0, 50] is [0, 50000].         *)
(***************************************************************************)
EXTENDS Integers, Sequences, FiniteSets, TLC

VARIABLES
    predictor,      \* the loaded artifacts: scaler, model, config, selected_features
    phase,          \* position of the request being handled
    route,          \* the handler that ran ("none" before any)
    df,             \* the table parsed from the upload (or handed to the function)
    validation,     \* what validate_csv_window returned in this request
    adapter_calls,  \* the predict_from_window invocations of this request, in order
    response,       \* the HTTP response of this request
    artifacts,      \* the files of the model directory
    load_attempts,  \* the artifact loads attempted at start-up, in order
    after_rejection,\* the previous request was rejected by validate_csv_window
    requests,       \* the /predict requests being handled at the same time
    users,          \* rows of table users
    prediction_runs,\* rows of table prediction_runs
    sqlite_sequence,\* the AUTOINCREMENT counters of the two tables
    sessions,       \* each client's session cookie
    uploads,        \* the files under the uploads directory
    clock           \* datetime.now(), in seconds

startup_vars == <<artifacts, load_attempts>>

account_vars == <<users, prediction_runs, sqlite_sequence, sessions, uploads, clock>>

vars == <<predictor, phase, route, df, validation, adapter_calls, response,
          artifacts, load_attempts, after_rejection, requests,
          users, prediction_runs, sqlite_sequence, sessions, uploads, clock>>

(***************************************************************************)
(* Bounds of the explored inputs.                                          *)
(***************************************************************************)
\* how many ways an uploaded table may deviate from the sample table at once
MaxFaults == 2
\* row counts explored around the lookback: lookback - d .. lookback + d, and 0
MaxRowDelta == 1
\* unrecognised columns an upload may carry
MaxExtra == 1

(***************************************************************************)
(* Feature configuration.                                                  *)
(***************************************************************************)
Lookback == 24

selected_features ==
    <<"Global_intensity", "Sub_metering_3", "Voltage",
      "Global_reactive_power", "Sub_metering_2">>

target_col == "Global_active_power"

column_order == selected_features \o <<target_col>>

Range(s) == {s[i] : i \in 1..Len(s)}

IndexOf(s, x) == CHOOSE i \in 1..Len(s) : s[i] = x

(***************************************************************************)
(* Cells. A raw cell is a number, unparseable text, or blank; a coerced    *)
(* cell is a number or NaN.                                                *)
(***************************************************************************)
Num(v) == [k |-> "num", v |-> v]
Text == [k |-> "text", v |-> 0]
Blank == [k |-> "blank", v |-> 0]
NaN == [k |-> "nan", v |-> 0]

\* pd.to_numeric(..., errors='coerce') on one cell
to_numeric(cell) == IF cell.k = "num" THEN cell ELSE NaN

isnull(cell) == cell.k # "num"

(***************************************************************************)
(* Tables (DataFrames): row count, ordered column names, cells by column.  *)
(***************************************************************************)
None == [present |-> FALSE, nrows |-> 0, columns |-> <<>>, cells |-> [c \in {} |-> <<>>]]

DataFrame(n, cols, cells) ==
    [present |-> TRUE, nrows |-> n, columns |-> cols, cells |-> cells]

len(t) == t.nrows

\* variant: no selection, the table is copied as uploaded
SelectAllColumns(t, cols) == t

\* df[cols]: the named columns, in the order asked
SelectColumns(t, cols) ==
    DataFrame(t.nrows, cols, [c \in Range(cols) |-> t.cells[c]])

\* the 24 rows served by /sample-csv, one tuple per row in column_order
SampleRows ==
    << <<4628, 17000, 234840, 226, 1000, 1088>>,
       <<4588, 17000, 234350, 224, 1000, 1080>>,
       <<4548, 17000, 233860, 222, 1000, 1072>>,
       <<4510, 16000, 233290, 220, 1000, 1064>>,
       <<4470, 16000, 233740, 218, 1000, 1056>>,
       <<4432, 17000, 234220, 216, 1000, 1048>>,
       <<4392, 17000, 233950, 214, 1000, 1040>>,
       <<4354, 17000, 234450, 212, 1000, 1032>>,
       <<4314, 17000, 234990, 210, 1000, 1024>>,
       <<4276, 17000, 234530, 208, 1000, 1016>>,
       <<4236, 16000, 234060, 206, 1000, 1008>>,
       <<4198, 16000, 233580, 204, 1000, 1000>>,
       <<4158, 16000, 234110, 202, 1000, 992>>,
       <<4120, 17000, 234640, 200, 1000, 984>>,
       <<4080, 17000, 234160, 198, 1000, 976>>,
       <<4042, 17000, 233690, 196, 1000, 968>>,
       <<4002, 17000, 234210, 194, 1000, 960>>,
       <<3964, 17000, 234740, 192, 1000, 952>>,
       <<3924, 16000, 234270, 190, 1000, 944>>,
       <<3886, 16000, 233790, 188, 1000, 936>>,
       <<3846, 16000, 234320, 186, 1000, 928>>,
       <<3808, 17000, 234850, 184, 1000, 920>>,
       <<3768, 17000, 234370, 182, 1000, 912>>,
       <<3730, 17000, 233900, 180, 1000, 904>> >>

\* column c of the sample rows, n rows long (rows repeat cyclically past the 24th)
SampleColumn(c, n) ==
    LET j == IndexOf(column_order, c)
    IN  [i \in 1..n |-> Num(SampleRows[((i - 1) % Len(SampleRows)) + 1][j])]

\* the sample rows as a table of n rows
SampleTable(n) ==
    DataFrame(n, column_order, [c \in Range(column_order) |-> SampleColumn(c, n)])

(***************************************************************************)
(* validate_csv_window                                                     *)
(***************************************************************************)
\* the static range table, in the order the code iterates it
ranges ==
    << [col |-> "Global_intensity",      min_val |-> 0,      max_val |-> 50000],
       [col |-> "Sub_metering_3",        min_val |-> 0,      max_val |-> 50000],
       [col |-> "Voltage",               min_val |-> 200000, max_val |-> 260000],
       [col |-> "Global_reactive_power", min_val |-> 0,      max_val |-> 2000],
       [col |-> "Sub_metering_2",        min_val |-> 0,      max_val |-> 50000],
       [col |-> "Global_active_power",   min_val |-> 0,      max_val |-> 12000] >>

RangeOf(c) == ranges[CHOOSE i \in 1..Len(ranges) : ranges[i].col = c]

\* the reason strings, as records: kind names the f-string, the fields its holes
NoMessage ==
    [prefix |-> "", kind |-> "none", expected |-> 0, found |-> 0, columns |-> <<>>,
     required |-> <<>>, bad_rows |-> 0, min_val |-> 0, max_val |-> 0]

EmptyMessage == [NoMessage EXCEPT !.kind = "empty"]

RowCountMessage(lookback, found) ==
    [NoMessage EXCEPT !.kind = "row_count", !.expected = lookback, !.found = found]

MissingColumnsMessage(missing, required) ==
    [NoMessage EXCEPT !.kind = "missing_columns", !.columns = missing, !.required = required]

NanMessage(cols) == [NoMessage EXCEPT !.kind = "nan", !.columns = cols]

RangeMessage(col, bad_rows, min_val, max_val) ==
    [NoMessage EXCEPT !.kind = "range", !.columns = <<col>>, !.bad_rows = bad_rows,
                      !.min_val = min_val, !.max_val = max_val]

Rejected(msg) == [is_valid |-> FALSE, error_message |-> msg, cleaned |-> None]

Accepted(t) == [is_valid |-> TRUE, error_message |-> NoMessage, cleaned |-> t]

\* variant: the bounds taken as exclusive
out_of_range_exclusive(cell, r) ==
    cell.k = "num" /\ (cell.v <= r.min_val \/ cell.v >= r.max_val)

\* (df[col] < min_val) | (df[col] > max_val), for one cell; NaN compares false
out_of_range(cell, r) == cell.k = "num" /\ (cell.v < r.min_val \/ cell.v > r.max_val)

\* variant: whether the column has an out-of-range value, not how many
bad_rows_any(t, r) ==
    IF \E i \in 1..t.nrows : out_of_range(t.cells[r.col][i], r) THEN 1 ELSE 0

\* out_of_range.sum() for the column of range entry r
bad_rows(t, r) == Cardinality({i \in 1..t.nrows : out_of_range(t.cells[r.col][i], r)})

\* variant: the target column's own history is not range-checked
range_check_features_only(df_cleaned) ==
    LET failing == SelectSeq(ranges, LAMBDA r :
                       /\ r.col \in Range(df_cleaned.columns)
                       /\ r.col # "Global_active_power"
                       /\ bad_rows(df_cleaned, r) > 0)
    IN  IF failing # <<>>
        THEN Rejected(RangeMessage(Head(failing).col, bad_rows(df_cleaned, Head(failing)),
                                   Head(failing).min_val, Head(failing).max_val))
        ELSE Accepted(df_cleaned)

\* the range loop: the first entry of the range table, in its order, whose
\* column is present and has an out-of-range value
range_check(df_cleaned) ==
    LET failing == SelectSeq(ranges, LAMBDA r :
                       r.col \in Range(df_cleaned.columns) /\ bad_rows(df_cleaned, r) > 0)
    IN  IF failing # <<>>
        THEN Rejected(RangeMessage(Head(failing).col, bad_rows(df_cleaned, Head(failing)),
                                   Head(failing).min_val, Head(failing).max_val))
        ELSE Accepted(df_cleaned)

\* variant: the range check runs before the NaN check
nan_check_range_first(df_selected) ==
    LET df_cleaned == [df_selected EXCEPT !.cells =
                          [c \in DOMAIN df_selected.cells |->
                              [i \in 1..df_selected.nrows |-> to_numeric(df_selected.cells[c][i])]]]
        nan_columns == SelectSeq(df_cleaned.columns, LAMBDA c :
                          \E i \in 1..df_cleaned.nrows : isnull(df_cleaned.cells[c][i]))
        ranged == range_check(df_cleaned)
    IN  IF ~ranged.is_valid THEN ranged
        ELSE IF nan_columns # <<>> THEN Rejected(NanMessage(nan_columns))
        ELSE ranged

\* variant: only the first column holding a missing value is named
nan_check_first_column(df_selected) ==
    LET df_cleaned == [df_selected EXCEPT !.cells =
                          [c \in DOMAIN df_selected.cells |->
                              [i \in 1..df_selected.nrows |-> to_numeric(df_selected.cells[c][i])]]]
        nan_columns == SelectSeq(df_cleaned.columns, LAMBDA c :
                          \E i \in 1..df_cleaned.nrows : isnull(df_cleaned.cells[c][i]))
    IN  IF nan_columns # <<>>
        THEN Rejected(NanMessage(<<Head(nan_columns)>>))
        ELSE range_check(df_cleaned)

\* the coercion loop and the NaN check
nan_check(df_selected) ==
    LET df_cleaned == [df_selected EXCEPT !.cells =
                          [c \in DOMAIN df_selected.cells |->
                              [i \in 1..df_selected.nrows |-> to_numeric(df_selected.cells[c][i])]]]
        nan_columns == SelectSeq(df_cleaned.columns, LAMBDA c :
                          \E i \in 1..df_cleaned.nrows : isnull(df_cleaned.cells[c][i]))
    IN  IF nan_columns # <<>>
        THEN Rejected(NanMessage(nan_columns))
        ELSE range_check(df_cleaned)

\* variant: only the first missing column is named
columns_check_first_missing(t, features, target) ==
    LET required_columns == features \o <<target>>
        missing_columns == SelectSeq(required_columns, LAMBDA c : c \notin Range(t.columns))
    IN  IF missing_columns # <<>>
        THEN Rejected(MissingColumnsMessage(<<Head(missing_columns)>>, required_columns))
        ELSE nan_check(SelectColumns(t, required_columns))

\* the required-column check and the selection df[required_columns]
columns_check(t, features, target) ==
    LET required_columns == features \o <<target>>
        missing_columns == SelectSeq(required_columns, LAMBDA c : c \notin Range(t.columns))
    IN  IF missing_columns # <<>>
        THEN Rejected(MissingColumnsMessage(missing_columns, required_columns))
        ELSE nan_check(SelectColumns(t, required_columns))

\* variant: a table with too many rows is cut to its first lookback rows
validate_csv_window_truncating(t, features, target, lookback) ==
    IF ~t.present \/ len(t) = 0
    THEN Rejected(EmptyMessage)
    ELSE IF len(t) < lookback
    THEN Rejected(RowCountMessage(lookback, len(t)))
    ELSE columns_check(
             [t EXCEPT !.nrows = lookback,
                       !.cells = [c \in DOMAIN t.cells |-> SubSeq(t.cells[c], 1, lookback)]],
             features, target)

validate_csv_window(t, features, target, lookback) ==
    IF ~t.present \/ len(t) = 0
    THEN Rejected(EmptyMessage)
    ELSE IF len(t) # lookback
    THEN Rejected(RowCountMessage(lookback, len(t)))
    ELSE columns_check(t, features, target)

(***************************************************************************)
(* The uploads explored: the sample table with up to MaxFaults deviations. *)
(* A deviation changes the row count, drops a required column, adds        *)
(* unrecognised columns, reorders the columns, or rewrites cells of one    *)
(* column.                                                                 *)
(***************************************************************************)
\* the row counts other than the lookback: none, then lookback -/+ 1, 2, ...
RowCounts ==
    <<0>> \o [i \in 1..MaxRowDelta |-> Lookback - i] \o [i \in 1..MaxRowDelta |-> Lookback + i]

CellFaultKinds == <<"edge", "below", "above", "above2", "text", "blank">>

OrderKinds == <<"reversed", "rotated">>

Fault(f, col, n, kind) == [f |-> f, col |-> col, n |-> n, kind |-> kind]

FaultOptions ==
    [i \in 1..Len(RowCounts) |-> Fault("rows", "", RowCounts[i], "")]
    \o [i \in 1..Len(column_order) |-> Fault("missing", column_order[i], 0, "")]
    \o [k \in 1..MaxExtra |-> Fault("extra", "", k, "")]
    \o [i \in 1..Len(OrderKinds) |-> Fault("order", "", 0, OrderKinds[i])]
    \o [i \in 1..(Len(column_order) * Len(CellFaultKinds)) |->
           Fault("cell", column_order[((i - 1) \div Len(CellFaultKinds)) + 1], 0,
                 CellFaultKinds[((i - 1) % Len(CellFaultKinds)) + 1])]

\* two deviations that cannot both be applied to one table
Conflict(x, y) ==
    \/ x.f = y.f /\ x.f \in {"rows", "extra", "order"}
    \/ x.col = y.col /\ x.col # ""

\* the choices of at most k compatible deviations, as increasing index tuples
RECURSIVE FaultChoices(_)
FaultChoices(k) ==
    IF k = 0 THEN {<<>>}
    ELSE LET prev == FaultChoices(k - 1)
         IN  prev \cup {Append(p[1], p[2]) : p \in
                 {q \in prev \X (1..Len(FaultOptions)) :
                     /\ Len(q[1]) = k - 1
                     /\ (q[1] # <<>> => q[2] > q[1][Len(q[1])])
                     /\ \A j \in 1..Len(q[1]) :
                           ~Conflict(FaultOptions[q[2]], FaultOptions[q[1][j]])}}

FaultSets(k) == {{FaultOptions[s[j]] : j \in 1..Len(s)} : s \in FaultChoices(k)}

Reverse(s) == [i \in 1..Len(s) |-> s[Len(s) + 1 - i]]

Rotate(s) == IF s = <<>> THEN s ELSE Tail(s) \o <<Head(s)>>

ExtraName(i) == "Extra_" \o ToString(i)

\* one column's cells after a cell deviation; r is the column's range entry
FaultyColumn(col, n, kind, r) ==
    [i \in 1..n |->
        CASE kind = "edge"   -> IF i = 1 THEN Num(r.min_val)
                                ELSE IF i = n THEN Num(r.max_val) ELSE col[i]
          [] kind = "below"  -> IF i = (n + 1) \div 2 THEN Num(r.min_val - 1) ELSE col[i]
          [] kind = "above"  -> IF i = n THEN Num(r.max_val + 1) ELSE col[i]
          [] kind = "above2" -> IF i \in {1, n} THEN Num(r.max_val + 1) ELSE col[i]
          [] kind = "text"   -> IF i = 1 THEN Text ELSE col[i]
          [] kind = "blank"  -> IF i = n THEN Blank ELSE col[i]
          [] OTHER           -> col[i]]

TableOf(F) ==
    LET n == IF \E x \in F : x.f = "rows" THEN (CHOOSE x \in F : x.f = "rows").n ELSE Lookback
        kept == SelectSeq(column_order, LAMBDA c : Fault("missing", c, 0, "") \notin F)
        nextra == IF \E x \in F : x.f = "extra" THEN (CHOOSE x \in F : x.f = "extra").n ELSE 0
        extras == [i \in 1..nextra |-> ExtraName(i)]
        order == IF \E x \in F : x.f = "order" THEN (CHOOSE x \in F : x.f = "order").kind ELSE ""
        placed == extras \o kept
        cols == IF order = "reversed" THEN Reverse(placed)
                ELSE IF order = "rotated" THEN Rotate(placed) ELSE placed
        kindOf(c) == IF \E x \in F : x.f = "cell" /\ x.col = c
                     THEN (CHOOSE x \in F : x.f = "cell" /\ x.col = c).kind ELSE ""
    IN  DataFrame(n, cols,
            [c \in Range(cols) |->
                IF c \in Range(column_order)
                THEN FaultyColumn(SampleColumn(c, n), n, kindOf(c), RangeOf(c))
                ELSE [i \in 1..n |-> Text]])

\* the sample table with at most k deviations
Tables(k) == {TableOf(F) : F \in FaultSets(k)}


(***************************************************************************)
(* The loaded artifacts. The scaler is a fitted per-column affine          *)
(* normaliser (transform: x * scale_ + min_; inverse: (y - min_) / scale_);*)
(* the regression model is a deterministic function of the scaled window.  *)
(* Both are supplied artifacts: a few fitted instances stand for them.     *)
(***************************************************************************)
Scalers ==
    { [has_n_features_in_ |-> TRUE, n_features_in_ |-> 6,
       scale_ |-> <<2, 3, 1, 5, 2, 4>>, min_ |-> <<-1, 0, -200000, 7, 3, -5>>],
      [has_n_features_in_ |-> TRUE, n_features_in_ |-> 6,
       scale_ |-> <<1, 1, 2, 1, 3, 7>>, min_ |-> <<0, -4, 9, 0, -2, 11>>] }

\* a scaler pickled by a library version that records no n_features_in_,
\* fitted on the five features without the target
LegacyScaler ==
    [has_n_features_in_ |-> FALSE, n_features_in_ |-> 0,
     scale_ |-> <<2, 3, 1, 5, 2>>, min_ |-> <<-1, 0, -200000, 7, 3>>]

\* scalers fitted on one column too few and one too many
NarrowScaler ==
    [has_n_features_in_ |-> TRUE, n_features_in_ |-> 5,
     scale_ |-> <<2, 3, 1, 5, 2>>, min_ |-> <<-1, 0, -200000, 7, 3>>]

WideScaler ==
    [has_n_features_in_ |-> TRUE, n_features_in_ |-> 7,
     scale_ |-> <<2, 3, 1, 5, 2, 4, 1>>, min_ |-> <<-1, 0, -200000, 7, 3, -5, 0>>]

Models == {"last_target", "last_row_sum", "first_target_plus"}

\* a model saved with five input channels
NarrowModel == "five_channel"

\* model.input_shape without the batch axis
input_shape(m) == IF m = NarrowModel THEN <<24, 5>> ELSE <<24, 6>>

Config == [target_col |-> target_col, lookback |-> Lookback, horizon |-> 1]

Predictors ==
    {[model |-> m, scaler |-> sc, config |-> Config, selected_features |-> selected_features] :
        m \in Models, sc \in Scalers}

\* arithmetic on cells: NaN propagates
Plus(a, b) == IF a.k = "num" /\ b.k = "num" THEN Num(a.v + b.v) ELSE NaN

\* scaler.transform on the value of column j
transform(sc, j, x) == IF x.k = "num" THEN Num(x.v * sc.scale_[j] + sc.min_[j]) ELSE NaN

\* scaler.inverse_transform on the value of column j
inverse_transform(sc, j, y) ==
    IF y.k = "num" THEN Num((y.v - sc.min_[j]) \div sc.scale_[j]) ELSE NaN

RECURSIVE SumRow(_, _, _)
SumRow(X, i, j) == IF j = 0 THEN Num(0) ELSE Plus(SumRow(X, i, j - 1), X[i][j])

\* model.predict on the scaled (1, 24, 6) tensor X (X[i][j]: timestep i, channel j)
model_predict(m, X) ==
    CASE m = "last_target"       -> X[Len(X)][Len(X[1])]
      [] m = "last_row_sum"      -> SumRow(X, Len(X), Len(X[1]))
      [] m = "first_target_plus" -> Plus(X[1][Len(X[1])], Num(3))

NoResult ==
    [present |-> FALSE, predicted_power_kw |-> NaN, actual_last_24h_kw |-> <<>>,
     predicted_next_hour_kw |-> NaN]

AdapterRowsMessage(found) ==
    [NoMessage EXCEPT !.kind = "adapter_rows", !.expected = 24, !.found = found]

AdapterMissingMessage(missing) ==
    [NoMessage EXCEPT !.kind = "adapter_missing", !.columns = missing]

ScalerErrorMessage == [NoMessage EXCEPT !.kind = "scaler_transform"]

ReshapeErrorMessage == [NoMessage EXCEPT !.kind = "reshape"]

ModelErrorMessage == [NoMessage EXCEPT !.kind = "model_predict"]

\* an invocation that raised: the error, and how far it got
Raised(msg, ntransform, npredict) ==
    [raised |-> TRUE, error |-> msg, result |-> NoResult,
     transform_calls |-> ntransform, predict_calls |-> npredict, inverse_calls |-> 0]

Returned(result) ==
    [raised |-> FALSE, error |-> NoMessage, result |-> result,
     transform_calls |-> 1, predict_calls |-> 1, inverse_calls |-> 1]

\* variant: the history is read newest first
actual_last_24h_reversed(df_window, target) ==
    [i \in 1..df_window.nrows |-> df_window.cells[target][df_window.nrows + 1 - i]]

\* the window's target column as a list, row order kept
actual_last_24h(df_window, target) ==
    [i \in 1..df_window.nrows |-> df_window.cells[target][i]]

\* variant: the prediction is placed in the first position of the dummy row
dummy_inverse_first_position(self, order, prediction_scaled) ==
    LET dummy_scaled == [j \in 1..Len(order) |->
                            IF j = 1 THEN prediction_scaled ELSE Num(0)]
        dummy_original == [j \in 1..Len(order) |->
                              inverse_transform(self.scaler, j, dummy_scaled[j])]
    IN  dummy_original[Len(order)]

\* lines 150-155: a 1 x 6 row of zeros with the scaled prediction in the last
\* position, inverse-transformed as a whole; the last position is read back
dummy_inverse(self, order, prediction_scaled) ==
    LET dummy_scaled == [j \in 1..Len(order) |->
                            IF j = Len(order) THEN prediction_scaled ELSE Num(0)]
        dummy_original == [j \in 1..Len(order) |->
                              inverse_transform(self.scaler, j, dummy_scaled[j])]
    IN  dummy_original[Len(order)]

\* variant: a failure of the scaler or the model is swallowed and the result
\* is returned with the fields filled so far
scale_and_predict_partial(self, df_window, order) ==
    LET X_with_target == [i \in 1..df_window.nrows |->
                             [j \in 1..Len(order) |-> df_window.cells[order[j]][i]]]
        actual == actual_last_24h(df_window, self.config.target_col)
        unconvertible == \E i \in 1..df_window.nrows : \E j \in 1..Len(order) :
                             X_with_target[i][j].k = "text"
        X_scaled == [i \in 1..df_window.nrows |->
                        [j \in 1..Len(order) |-> transform(self.scaler, j, X_with_target[i][j])]]
        prediction_scaled == model_predict(self.model, X_scaled)
        predicted_kw == dummy_inverse(self, order, prediction_scaled)
        failed == \/ unconvertible \/ df_window.nrows = 0
                  \/ Len(order) # Len(self.scaler.scale_)
                  \/ df_window.nrows # 24
                  \/ input_shape(self.model) # <<24, Len(order)>>
    IN  Returned([present |-> TRUE,
                  predicted_power_kw |-> IF failed THEN NaN ELSE predicted_kw,
                  actual_last_24h_kw |-> actual,
                  predicted_next_hour_kw |-> IF failed THEN NaN ELSE predicted_kw])

\* lines 130-161: select, scale, reshape, predict, invert through the dummy row.
\* The scaler refuses text, an empty matrix and a matrix of another width than
\* it was fitted on; the reshape to (1, 24, 6) refuses any other row count than
\* 24; the model refuses a tensor of another shape than its input shape.
scale_and_predict(self, df_window, order) ==
    LET X_with_target == [i \in 1..df_window.nrows |->
                             [j \in 1..Len(order) |-> df_window.cells[order[j]][i]]]
        actual == actual_last_24h(df_window, self.config.target_col)
        unconvertible == \E i \in 1..df_window.nrows : \E j \in 1..Len(order) :
                             X_with_target[i][j].k = "text"
        X_scaled == [i \in 1..df_window.nrows |->
                        [j \in 1..Len(order) |-> transform(self.scaler, j, X_with_target[i][j])]]
        prediction_scaled == model_predict(self.model, X_scaled)
        predicted_kw == dummy_inverse(self, order, prediction_scaled)
    IN  IF unconvertible \/ df_window.nrows = 0 \/ Len(order) # Len(self.scaler.scale_)
        THEN Raised(ScalerErrorMessage, 1, 0)
        ELSE IF df_window.nrows # 24
        THEN Raised(ReshapeErrorMessage, 1, 0)
        ELSE IF input_shape(self.model) # <<24, Len(order)>>
        THEN Raised(ModelErrorMessage, 1, 1)
        ELSE Returned([present |-> TRUE,
                       predicted_power_kw |-> predicted_kw,
                       actual_last_24h_kw |-> actual,
                       predicted_next_hour_kw |-> predicted_kw])

\* lines 124-127: every column of column_order must exist
adapter_columns_check(self, df_window) ==
    LET order == self.selected_features \o <<self.config.target_col>>
        missing_cols == SelectSeq(order, LAMBDA c : c \notin Range(df_window.columns))
    IN  IF missing_cols # <<>>
        THEN Raised(AdapterMissingMessage(missing_cols), 0, 0)
        ELSE scale_and_predict(self, df_window, order)

\* variant: the row count is not re-checked
predict_from_window_unchecked_rows(self, df_window) ==
    adapter_columns_check(self, df_window)

predict_from_window(self, df_window) ==
    IF len(df_window) # 24
    THEN Raised(AdapterRowsMessage(len(df_window)), 0, 0)
    ELSE adapter_columns_check(self, df_window)

\* variant: the scaler is refitted on every window it scales
predict_effect_refitting(self, df_window) ==
    [self EXCEPT !.scaler.min_ = [j \in 1..Len(self.scaler.min_) |-> self.scaler.min_[j] + 1]]

\* the predictor after predict_from_window(df_window): the method assigns no
\* attribute of self and calls only transform, predict and inverse_transform
predict_effect(self, df_window) == self

\* variant: the target column is appended to the caller's feature list
validate_effect_appending(self) ==
    [self EXCEPT !.selected_features = self.selected_features \o <<self.config.target_col>>]

\* the predictor after validate_csv_window(df, self.selected_features, ...):
\* required_columns is a new list and the table is copied before it is coerced
validate_effect(self) == self

(***************************************************************************)
(* ElectricityPredictor.__init__ and _load_artifacts. The model directory  *)
(* holds four files; each loads or fails to load. The model is loaded with *)
(* the custom layer first and, if that fails, once more with safe_mode off.*)
(***************************************************************************)
NoScaler == [has_n_features_in_ |-> FALSE, n_features_in_ |-> 0, scale_ |-> <<>>, min_ |-> <<>>]

NoConfig == [target_col |-> "", lookback |-> 0, horizon |-> 0]

\* self after lines 17-21 of __init__
Unloaded ==
    [model |-> "none", scaler |-> NoScaler, config |-> NoConfig, selected_features |-> <<>>]

\* final_model.keras: loads at the first attempt, only at the second, or never
ModelFiles ==
    {[loads |-> "first", model |-> m] : m \in {"last_target", "last_row_sum", NarrowModel}}
    \cup {[loads |-> "fallback", model |-> "first_target_plus"],
          [loads |-> "never", model |-> "none"]}

\* scaler.pkl
ScalerFiles ==
    {[loads |-> TRUE, scaler |-> sc] : sc \in Scalers \cup {LegacyScaler, NarrowScaler, WideScaler}}
    \cup {[loads |-> FALSE, scaler |-> NoScaler]}

\* config.json
ConfigFiles == {[loads |-> TRUE, config |-> Config], [loads |-> FALSE, config |-> NoConfig]}

\* selected_features.json
FeaturesFiles ==
    {[loads |-> TRUE, features |-> selected_features], [loads |-> FALSE, features |-> <<>>]}

ModelDirs ==
    {[model |-> m, scaler |-> sc, config |-> c, features |-> f] :
        m \in ModelFiles, sc \in ScalerFiles, c \in ConfigFiles, f \in FeaturesFiles}

LoadFailed(self, attempts) == [raised |-> TRUE, self |-> self, attempts |-> attempts]

Loaded(self, attempts) == [raised |-> FALSE, self |-> self, attempts |-> attempts]

\* lines 63-85: config, feature list; the input-shape comparison only prints
load_config_and_features(dir, self, attempts) ==
    IF ~dir.config.loads
    THEN LoadFailed(self, attempts \o <<"config">>)
    ELSE IF ~dir.features.loads
    THEN LoadFailed([self EXCEPT !.config = dir.config.config],
                    attempts \o <<"config", "features">>)
    ELSE Loaded([self EXCEPT !.config = dir.config.config,
                             !.selected_features = dir.features.features],
                attempts \o <<"config", "features">>)

\* lines 48-61: the scaler, and the feature-count check when the scaler
\* carries n_features_in_
load_scaler(dir, self, attempts) ==
    IF ~dir.scaler.loads
    THEN LoadFailed(self, attempts \o <<"scaler">>)
    ELSE IF dir.scaler.scaler.has_n_features_in_ /\ dir.scaler.scaler.n_features_in_ # 6
    THEN LoadFailed([self EXCEPT !.scaler = dir.scaler.scaler], attempts \o <<"scaler">>)
    ELSE load_config_and_features(dir, [self EXCEPT !.scaler = dir.scaler.scaler],
                                  attempts \o <<"scaler">>)

\* variant: the model load is repeated until it has been tried three times
_load_artifacts_retrying(dir) ==
    IF dir.model.loads = "first"
    THEN load_scaler(dir, [Unloaded EXCEPT !.model = dir.model.model], <<"model">>)
    ELSE IF dir.model.loads = "fallback"
    THEN load_scaler(dir, [Unloaded EXCEPT !.model = dir.model.model], <<"model", "model">>)
    ELSE LoadFailed(Unloaded, <<"model", "model", "model">>)

\* lines 25-89; attempts lists the load calls made, in order
_load_artifacts(dir) ==
    IF dir.model.loads = "first"
    THEN load_scaler(dir, [Unloaded EXCEPT !.model = dir.model.model], <<"model">>)
    ELSE IF dir.model.loads = "fallback"
    THEN load_scaler(dir, [Unloaded EXCEPT !.model = dir.model.model], <<"model", "model">>)
    ELSE LoadFailed(Unloaded, <<"model", "model">>)

\* the model directories with which the constructor returns
ServableDirs == {dir \in ModelDirs : ~_load_artifacts(dir).raised}


(***************************************************************************)
(* Sessions (backend/utils/auth.py) and the database as it stands after    *)
(* init_db, migrate_db and create_admin_if_not_exists.                     *)
(***************************************************************************)
\* browsers, each holding one session cookie
Clients == {"browser_a", "browser_b"}

\* a session without user_id
NoSession == [has_user_id |-> FALSE, user_id |-> 0, email |-> "", is_admin |-> FALSE]

\* 'user_id' in session
is_logged_in(session) == session.has_user_id

\* is_logged_in() and session.get('is_admin', False)
is_admin(session) == is_logged_in(session) /\ session.is_admin

get_current_user_id(session) == session.user_id

\* generate_password_hash: check_password_hash accepts the hashed password only
generate_password_hash(password) == [hash_of |-> password]

check_password_hash(pwhash, password) == pwhash.hash_of = password

\* the row create_admin_if_not_exists inserts
AdminUser ==
    [id |-> 1, email |-> "admin@localhost",
     password_hash |-> generate_password_hash("admin123"), is_admin |-> 1]

\* the database of a first start
FreshDatabase ==
    /\ users = {AdminUser}
    /\ prediction_runs = {}
    /\ sqlite_sequence = [users |-> 1, prediction_runs |-> 0]
    /\ sessions = [c \in Clients |-> NoSession]
    /\ uploads = {}
    /\ clock = 1

(***************************************************************************)
(* Request handlers (backend/app.py), one request at a time.               *)
(***************************************************************************)
NotValidated ==
    [called |-> FALSE, is_valid |-> FALSE, error_message |-> NoMessage, cleaned |-> None]

Validated(outcome) ==
    [called |-> TRUE, is_valid |-> outcome.is_valid,
     error_message |-> outcome.error_message, cleaned |-> outcome.cleaned]

AdapterCall(window, outcome) == [window |-> window, outcome |-> outcome]

\* os.path.join(UPLOAD_FOLDER, str(user_id), f"{timestamp}_{filename}")
NoPath == [user_id |-> 0, timestamp |-> 0, filename |-> ""]

NoRun ==
    [id |-> 0, user_id |-> 0, filename |-> "", predicted_power_kw |-> NaN,
     predicted_next_hour_kw |-> NaN, last24_json |-> <<>>, csv_storage_type |-> "",
     csv_file_path |-> NoPath]

\* the message a view flashes for the page that follows
NoFlash == [category |-> "", text |-> "", email |-> "", predictions_deleted |-> 0]

NoResponse ==
    [status |-> 0, kind |-> "none", error |-> NoMessage, result |-> NoResult,
     saved_to_history |-> FALSE, client |-> "", location |-> "", run |-> NoRun,
     rows |-> {}, flash |-> NoFlash, csv |-> None]

ErrorResponse(status, msg) ==
    [NoResponse EXCEPT !.status = status, !.kind = "error", !.error = msg]

PredictionError(msg) == [msg EXCEPT !.prefix = "Prediction error: "]

\* what a client may post to /predict
UploadKinds == {"no_file", "no_file_selected", "not_csv", "read_error", "csv"}

\* the tables clients upload: the sample with one deviation fewer than the
\* tables the validator and the adapter are explored on by themselves
Uploads == Tables(MaxFaults - 1)

\* the table of /debug/benchmark: the sample rows, with its own 18th row
BenchmarkTable ==
    LET sample == SampleTable(24)
    IN  [sample EXCEPT !.cells["Sub_metering_2"][18] = Num(952)]

num_runs == 10

\* the warm-up run and the num_runs timed runs
BenchmarkRuns == num_runs + 1

\* the process after module start-up with a model directory the constructor accepts
Init ==
    /\ artifacts \in ServableDirs
    /\ predictor = _load_artifacts(artifacts).self
    /\ load_attempts = _load_artifacts(artifacts).attempts
    /\ phase = "idle"
    /\ route = "none"
    /\ df = None
    /\ validation = NotValidated
    /\ adapter_calls = <<>>
    /\ response = NoResponse
    /\ after_rejection = FALSE
    /\ requests = <<>>
    /\ FreshDatabase

\* POST /predict with a request that fails before the CSV is parsed
PredictBadUpload ==
    /\ phase = "idle"
    /\ \E kind \in UploadKinds \ {"csv"} :
          response' = ErrorResponse(400, [NoMessage EXCEPT !.kind = kind])
    /\ phase' = "responded"
    /\ route' = "predict"
    /\ df' = None
    /\ validation' = NotValidated
    /\ adapter_calls' = <<>>
    /\ UNCHANGED <<predictor, startup_vars, after_rejection, requests, account_vars>>

HistoryRun(id, user_id, filename, result, csv_file_path) ==
    [id |-> id, user_id |-> user_id, filename |-> filename,
     predicted_power_kw |-> result.predicted_power_kw,
     predicted_next_hour_kw |-> result.predicted_next_hour_kw,
     last24_json |-> result.actual_last_24h_kw, csv_storage_type |-> "FILE",
     csv_file_path |-> csv_file_path]

\* variant: the adapter is called whatever validate_csv_window answered
predict_upload_ignoring_verdict(self, t) ==
    LET v == validate_csv_window(t, self.selected_features, self.config.target_col,
                                 self.config.lookback)
        self_validated == validate_effect(self)
        window == IF v.is_valid THEN v.cleaned ELSE t
        result == predict_from_window(self_validated, window)
    IN  [validation |-> Validated(v),
         adapter_calls |-> <<AdapterCall(window, result)>>,
         response |-> IF result.raised
                      THEN ErrorResponse(500, PredictionError(result.error))
                      ELSE [NoResponse EXCEPT !.status = 200, !.kind = "prediction",
                                              !.result = result.result],
         self |-> predict_effect(self_validated, window)]

\* lines 175-187 and 228-229 of predict: validate, stop at a rejection, predict;
\* an exception of the adapter becomes the 500 response
predict_upload(self, t) ==
    LET v == validate_csv_window(t, self.selected_features, self.config.target_col,
                                 self.config.lookback)
        self_validated == validate_effect(self)
        result == predict_from_window(self_validated, v.cleaned)
    IN  IF ~v.is_valid
        THEN [validation |-> Validated(v),
              adapter_calls |-> <<>>,
              response |-> ErrorResponse(400, v.error_message),
              self |-> self_validated]
        ELSE [validation |-> Validated(v),
              adapter_calls |-> <<AdapterCall(v.cleaned, result)>>,
              response |-> IF result.raised
                           THEN ErrorResponse(500, PredictionError(result.error))
                           ELSE [NoResponse EXCEPT !.status = 200, !.kind = "prediction",
                                                   !.result = result.result],
              self |-> predict_effect(self_validated, v.cleaned)]

\* werkzeug's secure_filename on the names the clients give their files
secure_filename(filename) ==
    CASE filename = "my window.csv" -> "my_window.csv"
      [] OTHER -> filename

\* open(csv_filepath, 'w').write(csv_content): a file of that path is replaced
write_file(csv_filepath, csv_content) ==
    {f \in uploads : f.path # csv_filepath}
    \cup {[path |-> csv_filepath, content |-> csv_content]}

Persisted(resp, files, runs, sequence) ==
    [response |-> resp, uploads |-> files, prediction_runs |-> runs,
     sqlite_sequence |-> sequence]

\* what can go wrong while a prediction is saved: nothing, the write of the
\* file (os.makedirs, open, write), or the INSERT after the file is written
HistoryFaults == {"none", "file", "database"}

\* variant: a failure to save the history fails the request
save_history_or_fail(session, filename, csv_content, resp, fault) ==
    LET user_id == get_current_user_id(session)
        csv_filepath == [user_id |-> user_id, timestamp |-> clock,
                         filename |-> secure_filename(filename)]
        run_id == sqlite_sequence.prediction_runs + 1
        failed == ErrorResponse(500, PredictionError(NoMessage))
    IN  IF ~is_logged_in(session)
        THEN Persisted(resp, uploads, prediction_runs, sqlite_sequence)
        ELSE IF fault = "file"
        THEN Persisted(failed, uploads, prediction_runs, sqlite_sequence)
        ELSE IF fault = "database"
        THEN Persisted(failed, write_file(csv_filepath, csv_content), prediction_runs,
                       sqlite_sequence)
        ELSE Persisted([resp EXCEPT !.saved_to_history = TRUE],
                       write_file(csv_filepath, csv_content),
                       prediction_runs \cup
                           {HistoryRun(run_id, user_id, secure_filename(filename),
                                       resp.result, csv_filepath)},
                       [sqlite_sequence EXCEPT !.prediction_runs = run_id])

\* lines 189-226 of predict: saving a successful prediction to the history.
\* A failure is caught and only printed.
save_history(session, filename, csv_content, resp, fault) ==
    LET user_id == get_current_user_id(session)
        csv_filepath == [user_id |-> user_id, timestamp |-> clock,
                         filename |-> secure_filename(filename)]
        run_id == sqlite_sequence.prediction_runs + 1
    IN  IF ~is_logged_in(session)
        THEN Persisted(resp, uploads, prediction_runs, sqlite_sequence)
        ELSE IF fault = "file"
        THEN Persisted(resp, uploads, prediction_runs, sqlite_sequence)
        ELSE IF fault = "database"
        THEN Persisted(resp, write_file(csv_filepath, csv_content), prediction_runs,
                       sqlite_sequence)
        ELSE Persisted([resp EXCEPT !.saved_to_history = TRUE],
                       write_file(csv_filepath, csv_content),
                       prediction_runs \cup
                           {HistoryRun(run_id, user_id, secure_filename(filename),
                                       resp.result, csv_filepath)},
                       [sqlite_sequence EXCEPT !.prediction_runs = run_id])

\* the sample window with another reading of the target in its last hour
LaterWindow ==
    LET sample == SampleTable(24)
    IN  [sample EXCEPT !.cells["Global_active_power"][24] = Num(1500)]

\* the model directory of the account histories, and what it loads to
AccountDir ==
    CHOOSE dir \in ServableDirs :
        ~predict_from_window(_load_artifacts(dir).self, SampleTable(24)).raised

AccountPredictor == _load_artifacts(AccountDir).self

\* the files the clients of the account histories upload
AccountFiles == {SampleTable(24), LaterWindow, SampleTable(23)}

\* predict_upload on those files with that predictor, worked out once
AccountFilesHandled == [t \in AccountFiles |-> predict_upload(AccountPredictor, t)]

\* POST /predict by client c with a CSV file named filename that parses to
\* table t, while the file system and the database behave as one of faults
PredictRequest(c, t, filename, faults) ==
    /\ phase = "idle"
    /\ LET done == IF predictor = AccountPredictor /\ t \in AccountFiles
                   THEN AccountFilesHandled[t]
                   ELSE predict_upload(predictor, t)
       IN  /\ df' = t
           /\ validation' = done.validation
           /\ adapter_calls' = done.adapter_calls
           /\ predictor' = done.self
           /\ IF done.response.status = 200
              THEN \E fault \in faults :
                      LET saved == save_history(sessions[c], filename, t, done.response,
                                                fault)
                      IN  /\ uploads' = saved.uploads
                          /\ prediction_runs' = saved.prediction_runs
                          /\ sqlite_sequence' = saved.sqlite_sequence
                          /\ response' = [saved.response EXCEPT !.client = c]
              ELSE /\ UNCHANGED <<uploads, prediction_runs, sqlite_sequence>>
                   /\ response' = [done.response EXCEPT !.client = c]
    /\ phase' = "responded"
    /\ route' = "predict"
    /\ UNCHANGED <<startup_vars, after_rejection, requests, users, sessions, clock>>

\* POST /predict with a CSV file that parses to table t
Predict == \E t \in Uploads : PredictRequest("browser_a", t, "upload.csv", HistoryFaults)

\* GET /debug/selftest: validate and predict the sample CSV
DebugSelftest ==
    /\ phase = "idle"
    /\ LET t == SampleTable(24)
           v == validate_csv_window(t, predictor.selected_features,
                                    predictor.config.target_col, predictor.config.lookback)
           self_validated == validate_effect(predictor)
           result == predict_from_window(self_validated, v.cleaned)
       IN  /\ df' = t
           /\ validation' = Validated(v)
           /\ IF ~v.is_valid
              THEN /\ adapter_calls' = <<>>
                   /\ response' = ErrorResponse(400, v.error_message)
                   /\ predictor' = self_validated
              ELSE /\ adapter_calls' = <<AdapterCall(v.cleaned, result)>>
                   /\ response' =
                         IF result.raised
                         THEN ErrorResponse(500, result.error)
                         ELSE [NoResponse EXCEPT !.status = 200, !.kind = "selftest",
                                                 !.result = result.result]
                   /\ predictor' = predict_effect(self_validated, v.cleaned)
    /\ phase' = "responded"
    /\ route' = "selftest"
    /\ UNCHANGED <<startup_vars, after_rejection, requests, account_vars>>

\* lines 500-509 of debug_benchmark: n more runs on df_sample, stopping at the
\* first that raises; calls are the runs made so far
RECURSIVE benchmark_runs(_, _, _, _)
benchmark_runs(self, df_sample, n, calls) ==
    IF n = 0
    THEN [self |-> self, calls |-> calls, raised |-> FALSE, error |-> NoMessage]
    ELSE LET result == predict_from_window(self, df_sample)
             made == Append(calls, AdapterCall(df_sample, result))
             self_after == predict_effect(self, df_sample)
         IN  IF result.raised
             THEN [self |-> self_after, calls |-> made, raised |-> TRUE, error |-> result.error]
             ELSE benchmark_runs(self_after, df_sample, n - 1, made)

\* GET /debug/benchmark: a warm-up run and num_runs timed runs on the built-in table
DebugBenchmark ==
    /\ phase = "idle"
    /\ LET df_sample == BenchmarkTable
           runs == benchmark_runs(predictor, df_sample, BenchmarkRuns, <<>>)
       IN  /\ df' = df_sample
           /\ adapter_calls' = runs.calls
           /\ predictor' = runs.self
           /\ response' =
                 IF runs.raised
                 THEN ErrorResponse(500, [runs.error EXCEPT !.prefix = "Benchmark failed: "])
                 ELSE [NoResponse EXCEPT !.status = 200, !.kind = "benchmark"]
    /\ validation' = NotValidated
    /\ phase' = "responded"
    /\ route' = "benchmark"
    /\ UNCHANGED <<startup_vars, after_rejection, requests, account_vars>>

\* GET /api/health: the database answers or not; the predictor is only read
HealthCheck ==
    /\ phase = "idle"
    /\ \E db_status \in {"healthy", "error"} :
          LET all_healthy == db_status = "healthy" /\ predictor.model # "none"
          IN  response' = [NoResponse EXCEPT !.status = IF all_healthy THEN 200 ELSE 503,
                                             !.kind = "health"]
    /\ phase' = "responded"
    /\ route' = "health"
    /\ df' = None
    /\ validation' = NotValidated
    /\ adapter_calls' = <<>>
    /\ UNCHANGED <<predictor, startup_vars, after_rejection, requests, account_vars>>

\* the response is sent; the request's table and result are discarded
RequestDone ==
    /\ phase = "responded"
    /\ phase' = "idle"
    /\ after_rejection' = (route = "predict" /\ validation.called /\ ~validation.is_valid)
    /\ df' = None
    /\ validation' = NotValidated
    /\ adapter_calls' = <<>>
    /\ response' = NoResponse
    /\ route' = "none"
    /\ UNCHANGED <<predictor, startup_vars, requests, account_vars>>

Next ==
    \/ PredictBadUpload
    \/ Predict
    \/ DebugSelftest
    \/ DebugBenchmark
    \/ HealthCheck
    \/ RequestDone

Spec == Init /\ [][Next]_vars

(***************************************************************************)
(* The process from before the predictor is constructed: any model         *)
(* directory; the module-level constructor call either binds predictor,    *)
(* after which requests are served, or raises, which ends the process.     *)
(***************************************************************************)
InitStartup ==
    /\ artifacts \in ModelDirs
    /\ predictor = Unloaded
    /\ load_attempts = <<>>
    /\ phase = "boot"
    /\ route = "none"
    /\ df = None
    /\ validation = NotValidated
    /\ adapter_calls = <<>>
    /\ response = NoResponse
    /\ after_rejection = FALSE
    /\ requests = <<>>
    /\ FreshDatabase

\* predictor = ElectricityPredictor(model_path)
Construct ==
    /\ phase = "boot"
    /\ LET load == _load_artifacts(artifacts)
       IN  /\ load_attempts' = load.attempts
           /\ IF load.raised
              THEN /\ phase' = "aborted"
                   /\ predictor' = Unloaded
              ELSE /\ phase' = "idle"
                   /\ predictor' = load.self
    /\ UNCHANGED <<route, df, validation, adapter_calls, response, artifacts,
                   after_rejection, requests, account_vars>>

NextStartup ==
    \/ Construct
    \/ Next

SpecStartup == InitStartup /\ [][NextStartup]_vars

(***************************************************************************)
(* Accounts, history and administration (backend/app.py, backend/db.py,    *)
(* backend/utils/auth.py). Each client holds one session cookie; requests  *)
(* are handled one at a time.                                              *)
(***************************************************************************)
\* user ids the explored histories hand out, the administrator's included
MaxUsers == 2

\* prediction runs the explored histories save
MaxRuns == 1

\* session['user_id'], session['email'], session['is_admin'] of set_user_session
set_user_session(user_id, email, admin) ==
    [has_user_id |-> TRUE, user_id |-> user_id, email |-> email, is_admin |-> admin]

\* session.clear()
clear_user_session == NoSession

\* variant: the view runs for every session
login_required_missing(session) == ""

\* @login_required: the endpoint the request is sent to instead of the view,
\* "" when the view runs
login_required(session) == IF ~session.has_user_id THEN "login" ELSE ""

\* variant: the decorator checks the login only
admin_required_login_only(session) == IF ~session.has_user_id THEN "login" ELSE ""

\* @admin_required
admin_required(session) ==
    IF ~session.has_user_id THEN "login"
    ELSE IF ~session.is_admin THEN "index"
    ELSE ""

\* addresses typed into the forms
Emails == {"a@house.io", "b@house.io"}

\* re.match(email_pattern, email) on the addresses the forms carry
email_pattern(email) == email \in Emails

\* len(password) of the passwords the forms carry
password_length(password) ==
    CASE password = ""         -> 0
      [] password = "abc"      -> 3
      [] password = "hunter22" -> 8
      [] password = "admin123" -> 8

RegisterForms ==
    {[email |-> e, password |-> "hunter22", confirm_password |-> "hunter22"] : e \in Emails}
    \cup {[email |-> "", password |-> "hunter22", confirm_password |-> "hunter22"],
          [email |-> "not-an-email", password |-> "hunter22", confirm_password |-> "hunter22"],
          [email |-> "a@house.io", password |-> "abc", confirm_password |-> "abc"],
          [email |-> "a@house.io", password |-> "hunter22", confirm_password |-> "admin123"]}

LoginForms ==
    {[email |-> e, password |-> p, next |-> n] :
        e \in Emails \cup {"admin@localhost"}, p \in {"hunter22", "admin123"},
        n \in {"", "history"}}
    \cup {[email |-> "", password |-> "", next |-> ""]}

\* SELECT ... FROM users WHERE email = ?
get_user_by_email(email) == {u \in users : u.email = email}

\* variant: the run is looked up by its id alone
get_prediction_run_by_id_any_owner(run_id, user_id) ==
    {r \in prediction_runs : r.id = run_id}

\* SELECT ... FROM prediction_runs WHERE id = ? AND user_id = ?
get_prediction_run_by_id(run_id, user_id) ==
    {r \in prediction_runs : r.id = run_id /\ r.user_id = user_id}

\* SELECT ... FROM prediction_runs WHERE user_id = ?
get_user_prediction_runs(user_id) == {r.id : r \in {q \in prediction_runs : q.user_id = user_id}}

\* SELECT ... FROM prediction_runs p JOIN users u ON p.user_id = u.id
get_all_predictions_admin ==
    {r.id : r \in {q \in prediction_runs : \E u \in users : u.id = q.user_id}}

\* SELECT ... FROM users u LEFT JOIN prediction_runs p ... GROUP BY u.id
get_all_users_admin == {u.id : u \in users}

Redirect(c, endpoint) ==
    [NoResponse EXCEPT !.status = 302, !.kind = "redirect", !.location = endpoint,
                       !.client = c]

Page(c, template) ==
    [NoResponse EXCEPT !.status = 200, !.kind = "page", !.location = template, !.client = c]

\* what every view outside /predict leaves alone, and the response it sends
Answer(name, resp) ==
    /\ phase = "idle"
    /\ phase' = "responded"
    /\ route' = name
    /\ response' = resp
    /\ UNCHANGED <<predictor, df, validation, adapter_calls, startup_vars,
                   after_rejection, requests>>

\* flash(text, category)
Flash(text, category) == [NoFlash EXCEPT !.text = text, !.category = category]

\* variant: the users table has no UNIQUE constraint on email
create_user_without_unique(email, password_hash) ==
    LET user_id == sqlite_sequence.users + 1
    IN  [user_id |-> user_id,
         users |-> users \cup {[id |-> user_id, email |-> email,
                                password_hash |-> password_hash, is_admin |-> 0]},
         sqlite_sequence |-> [sqlite_sequence EXCEPT !.users = user_id]]

\* db.create_user: one INSERT; user_id 0 stands for None, returned on the
\* IntegrityError of the UNIQUE constraint on email
create_user(email, password_hash) ==
    LET user_id == sqlite_sequence.users + 1
    IN  IF \E u \in users : u.email = email
        THEN [user_id |-> 0, users |-> users, sqlite_sequence |-> sqlite_sequence]
        ELSE [user_id |-> user_id,
              users |-> users \cup {[id |-> user_id, email |-> email,
                                     password_hash |-> password_hash, is_admin |-> 0]},
              sqlite_sequence |-> [sqlite_sequence EXCEPT !.users = user_id]]

\* the register page again, with the message flashed
RegisterAgain(c, text) ==
    /\ Answer("register", [Page(c, "register.html") EXCEPT !.flash = Flash(text, "error")])
    /\ UNCHANGED account_vars

\* GET and POST /register
Register(c) ==
    \E method \in {"GET", "POST"}, form \in RegisterForms :
        IF method = "GET"
        THEN /\ Answer("register", IF is_logged_in(sessions[c]) THEN Redirect(c, "index")
                                   ELSE Page(c, "register.html"))
             /\ UNCHANGED account_vars
        ELSE IF form.email = "" \/ form.password = ""
        THEN RegisterAgain(c, "Email and password are required.")
        ELSE IF ~email_pattern(form.email)
        THEN RegisterAgain(c, "Please enter a valid email address.")
        ELSE IF password_length(form.password) < 6
        THEN RegisterAgain(c, "Password must be at least 6 characters long.")
        ELSE IF form.password # form.confirm_password
        THEN RegisterAgain(c, "Passwords do not match.")
        ELSE LET created == create_user(form.email, generate_password_hash(form.password))
             IN  IF created.user_id = 0
                 THEN RegisterAgain(c, "Email already registered. Please log in.")
                 ELSE /\ created.user_id <= MaxUsers
                      /\ users' = created.users
                      /\ sqlite_sequence' = created.sqlite_sequence
                      /\ sessions' = [sessions EXCEPT ![c] =
                                         set_user_session(created.user_id, form.email, FALSE)]
                      /\ Answer("register",
                                [Redirect(c, "index") EXCEPT !.flash =
                                    Flash("Account created successfully! Welcome!", "success")])
                      /\ UNCHANGED <<prediction_runs, uploads, clock>>

\* the login page again, with the message flashed
LoginAgain(c, text) ==
    /\ Answer("login", [Page(c, "login.html") EXCEPT !.flash = Flash(text, "error")])
    /\ UNCHANGED account_vars

\* GET and POST /login
Login(c) ==
    \E method \in {"GET", "POST"}, form \in LoginForms :
        IF method = "GET"
        THEN /\ Answer("login", IF is_logged_in(sessions[c]) THEN Redirect(c, "index")
                                ELSE Page(c, "login.html"))
             /\ UNCHANGED account_vars
        ELSE IF form.email = "" \/ form.password = ""
        THEN LoginAgain(c, "Email and password are required.")
        ELSE IF get_user_by_email(form.email) = {}
        THEN LoginAgain(c, "Invalid email or password.")
        ELSE LET user == CHOOSE u \in get_user_by_email(form.email) : TRUE
             IN  IF ~check_password_hash(user.password_hash, form.password)
                 THEN LoginAgain(c, "Invalid email or password.")
                 ELSE /\ sessions' = [sessions EXCEPT ![c] =
                                         set_user_session(user.id, user.email, user.is_admin = 1)]
                      /\ Answer("login",
                                [Redirect(c, IF form.next # "" THEN form.next ELSE "index")
                                    EXCEPT !.flash = Flash("Logged in successfully!", "success")])
                      /\ UNCHANGED <<users, prediction_runs, sqlite_sequence, uploads, clock>>

\* GET /logout
Logout(c) ==
    /\ sessions' = [sessions EXCEPT ![c] = clear_user_session]
    /\ Answer("logout", Redirect(c, "index"))
    /\ UNCHANGED <<users, prediction_runs, sqlite_sequence, uploads, clock>>

\* GET /history
History(c) ==
    /\ LET gate == login_required(sessions[c])
       IN  Answer("history",
                  IF gate # "" THEN Redirect(c, gate)
                  ELSE [Page(c, "history.html") EXCEPT
                           !.rows = get_user_prediction_runs(get_current_user_id(sessions[c]))])
    /\ UNCHANGED account_vars

\* GET /history/<run_id>
HistoryDetail(c, run_id) ==
    /\ LET gate == login_required(sessions[c])
           run == get_prediction_run_by_id(run_id, get_current_user_id(sessions[c]))
       IN  Answer("history_detail",
                  IF gate # "" THEN Redirect(c, gate)
                  ELSE IF run = {} THEN Redirect(c, "history")
                  ELSE [Page(c, "history_detail.html") EXCEPT
                           !.run = CHOOSE r \in run : TRUE])
    /\ UNCHANGED account_vars

\* GET /history/<run_id>/download
DownloadCsv(c, run_id) ==
    /\ LET gate == login_required(sessions[c])
           run == get_prediction_run_by_id(run_id, get_current_user_id(sessions[c]))
       IN  IF gate # "" THEN Answer("download_csv", Redirect(c, gate))
           ELSE IF run = {} THEN Answer("download_csv", Redirect(c, "history"))
           ELSE LET r == CHOOSE q \in run : TRUE
                    stored == {f \in uploads : f.path = r.csv_file_path}
                IN  IF r.csv_storage_type = "FILE" /\ stored # {}
                    THEN Answer("download_csv",
                                [NoResponse EXCEPT !.status = 200, !.kind = "file",
                                                   !.client = c, !.run = r,
                                                   !.csv = (CHOOSE f \in stored : TRUE).content])
                    ELSE Answer("download_csv", Redirect(c, "history_detail"))
    /\ UNCHANGED account_vars

\* GET /admin/dashboard
AdminDashboard(c) ==
    /\ LET gate == admin_required(sessions[c])
       IN  Answer("admin_dashboard",
                  IF gate # "" THEN Redirect(c, gate) ELSE Page(c, "admin_dashboard.html"))
    /\ UNCHANGED account_vars

\* GET /admin/users
AdminUsers(c) ==
    /\ LET gate == admin_required(sessions[c])
       IN  Answer("admin_users",
                  IF gate # "" THEN Redirect(c, gate)
                  ELSE [Page(c, "admin_users.html") EXCEPT !.rows = get_all_users_admin])
    /\ UNCHANGED account_vars

\* what delete_user_admin returns, and the two tables as it leaves them
DeleteFailed(error) ==
    [success |-> FALSE, error |-> error, email |-> "", predictions_deleted |-> 0,
     users |-> users, prediction_runs |-> prediction_runs]

\* variant: the is_admin flag of the row is not looked at
delete_user_admin_any_user(user_id) ==
    LET user == {u \in users : u.id = user_id}
    IN  IF user = {} THEN DeleteFailed("User not found")
        ELSE [success |-> TRUE, error |-> "",
              email |-> (CHOOSE u \in user : TRUE).email,
              predictions_deleted |->
                  Cardinality({r \in prediction_runs : r.user_id = user_id}),
              users |-> users \ user,
              prediction_runs |-> {r \in prediction_runs : r.user_id # user_id}]

\* db.delete_user_admin
delete_user_admin(user_id) ==
    LET user == {u \in users : u.id = user_id}
    IN  IF user = {} THEN DeleteFailed("User not found")
        ELSE IF \E u \in user : u.is_admin # 0 THEN DeleteFailed("Cannot delete admin users")
        ELSE [success |-> TRUE, error |-> "",
              email |-> (CHOOSE u \in user : TRUE).email,
              predictions_deleted |->
                  Cardinality({r \in prediction_runs : r.user_id = user_id}),
              users |-> users \ user,
              prediction_runs |-> {r \in prediction_runs : r.user_id # user_id}]

\* POST /admin/users/delete/<user_id>
AdminDeleteUser(c, user_id) ==
    LET gate == admin_required(sessions[c])
        result == delete_user_admin(user_id)
    IN  IF gate # ""
        THEN /\ Answer("admin_delete_user", Redirect(c, gate))
             /\ UNCHANGED account_vars
        ELSE /\ Answer("admin_delete_user",
                       [Redirect(c, "admin_users") EXCEPT !.flash =
                           IF result.success
                           THEN [category |-> "success", text |-> "deleted successfully",
                                 email |-> result.email,
                                 predictions_deleted |-> result.predictions_deleted]
                           ELSE [NoFlash EXCEPT !.category = "error",
                                                !.text = result.error]])
             /\ users' = result.users
             /\ prediction_runs' = result.prediction_runs
             /\ UNCHANGED <<sqlite_sequence, sessions, uploads, clock>>

\* GET /admin/predictions
AdminPredictions(c) ==
    /\ LET gate == admin_required(sessions[c])
       IN  Answer("admin_predictions",
                  IF gate # "" THEN Redirect(c, gate)
                  ELSE [Page(c, "admin_predictions.html") EXCEPT
                           !.rows = get_all_predictions_admin])
    /\ UNCHANGED account_vars

\* GET /admin/predictions/<prediction_id>: db has no get_prediction_by_id, the
\* view raises AttributeError
AdminPredictionDetail(c, prediction_id) ==
    /\ LET gate == admin_required(sessions[c])
       IN  Answer("admin_prediction_detail",
                  IF gate # "" THEN Redirect(c, gate)
                  ELSE [NoResponse EXCEPT !.status = 500, !.kind = "server_error",
                                          !.client = c])
    /\ UNCHANGED account_vars

\* POST /admin/predictions/delete/<prediction_id> with db.delete_prediction_admin
AdminDeletePrediction(c, prediction_id) ==
    LET gate == admin_required(sessions[c])
        prediction == {r \in prediction_runs :
                          r.id = prediction_id /\ \E u \in users : u.id = r.user_id}
    IN  IF gate # ""
        THEN /\ Answer("admin_delete_prediction", Redirect(c, gate))
             /\ UNCHANGED account_vars
        ELSE /\ Answer("admin_delete_prediction", Redirect(c, "admin_predictions"))
             /\ prediction_runs' = {r \in prediction_runs :
                                       prediction = {} \/ r.id # prediction_id}
             /\ UNCHANGED <<users, sqlite_sequence, sessions, uploads, clock>>

\* the CSV files the clients of the accounts upload
AccountUploads == AccountFiles \ {LaterWindow}

\* POST /predict by client c
AccountPredict(c) ==
    /\ sqlite_sequence.prediction_runs < MaxRuns
    /\ \E t \in AccountUploads : PredictRequest(c, t, "window.csv", {"none"})

\* ids a client may put in a URL
RunIds == 1..(MaxRuns + 1)

UserIds == 1..(MaxUsers + 1)

InitAccounts ==
    /\ artifacts = AccountDir
    /\ predictor = _load_artifacts(artifacts).self
    /\ load_attempts = _load_artifacts(artifacts).attempts
    /\ phase = "idle"
    /\ route = "none"
    /\ df = None
    /\ validation = NotValidated
    /\ adapter_calls = <<>>
    /\ response = NoResponse
    /\ after_rejection = FALSE
    /\ requests = <<>>
    /\ FreshDatabase

NextAccounts ==
    \/ \E c \in Clients : Register(c)
    \/ \E c \in Clients : Login(c)
    \/ \E c \in Clients : Logout(c)
    \/ \E c \in Clients : AccountPredict(c)
    \/ \E c \in Clients : History(c)
    \/ \E c \in Clients, run_id \in RunIds : HistoryDetail(c, run_id)
    \/ \E c \in Clients, run_id \in RunIds : DownloadCsv(c, run_id)
    \/ \E c \in Clients : AdminDashboard(c)
    \/ \E c \in Clients : AdminUsers(c)
    \/ \E c \in Clients, user_id \in UserIds : AdminDeleteUser(c, user_id)
    \/ \E c \in Clients : AdminPredictions(c)
    \/ \E c \in Clients, prediction_id \in RunIds : AdminPredictionDetail(c, prediction_id)
    \/ \E c \in Clients, prediction_id \in RunIds : AdminDeletePrediction(c, prediction_id)
    \/ RequestDone

SpecAccounts == InitAccounts /\ [][NextAccounts]_vars

(***************************************************************************)
(* The history of a logged-in client: uploads saved while the clock runs   *)
(* and while the file system or the database may fail.                     *)
(***************************************************************************)
\* prediction runs saved in the explored histories of uploads
MaxUploads == 2

\* seconds the clock shows in the explored histories of uploads
MaxClock == 2

\* the CSV files saved to the history, and one that is rejected
HistoryUploads == AccountFiles

\* POST /predict by client c
UploadPredict(c) ==
    /\ sqlite_sequence.prediction_runs < MaxUploads
    /\ \E t \in HistoryUploads : PredictRequest(c, t, "window.csv", HistoryFaults)

\* a second passes
Tick ==
    /\ clock < MaxClock
    /\ clock' = clock + 1
    /\ UNCHANGED <<predictor, phase, route, df, validation, adapter_calls, response,
                   startup_vars, after_rejection, requests,
                   users, prediction_runs, sqlite_sequence, sessions, uploads>>

\* one browser: it uploads without an account, registers the first account,
\* uploads with it and logs out
NextUploads ==
    \/ (users = {AdminUser} /\ Register("browser_a"))
    \/ Logout("browser_a")
    \/ UploadPredict("browser_a")
    \/ Tick
    \/ RequestDone

SpecUploads == InitAccounts /\ [][NextUploads]_vars

(***************************************************************************)
(* Simultaneous /predict requests. The development server handles each     *)
(* request in a thread of its own; the threads share the module-level      *)
(* predictor and nothing else. A request validates in one step and         *)
(* predicts in a later one, other requests' steps falling in between.      *)
(***************************************************************************)
\* requests in flight at once
MaxRequests == 3

\* what the simultaneous clients upload: the sample, a window with another
\* last hour, and the sample cut to 23 rows
ConcurrentUploads == <<SampleTable(24), LaterWindow, SampleTable(23)>>

\* the uploads of the requests in flight; the threads differ in their upload
\* only, so the requests are numbered in the order of ConcurrentUploads
UploadChoices ==
    {f \in [1..MaxRequests -> DOMAIN ConcurrentUploads] :
        \A r \in 1..(MaxRequests - 1) : f[r] <= f[r + 1]}

Received(t) ==
    [pc |-> "received", df |-> t, validation |-> NotValidated, adapter_calls |-> <<>>,
     response |-> NoResponse]

InitConcurrent ==
    /\ artifacts \in ServableDirs
    /\ predictor = _load_artifacts(artifacts).self
    /\ load_attempts = _load_artifacts(artifacts).attempts
    /\ phase = "serving"
    /\ route = "predict"
    /\ df = None
    /\ validation = NotValidated
    /\ adapter_calls = <<>>
    /\ response = NoResponse
    /\ after_rejection = FALSE
    /\ requests \in {[r \in 1..MaxRequests |-> Received(ConcurrentUploads[f[r]])] :
                        f \in UploadChoices}
    /\ FreshDatabase

\* lines 175-184 of predict, in the thread of request r
ValidateStep(r) ==
    /\ requests[r].pc = "received"
    /\ LET v == validate_csv_window(requests[r].df, predictor.selected_features,
                                    predictor.config.target_col, predictor.config.lookback)
       IN  requests' = [requests EXCEPT ![r] =
               IF v.is_valid
               THEN [@ EXCEPT !.pc = "validated", !.validation = Validated(v)]
               ELSE [@ EXCEPT !.pc = "responded", !.validation = Validated(v),
                              !.response = ErrorResponse(400, v.error_message)]]
    /\ predictor' = validate_effect(predictor)
    /\ UNCHANGED <<phase, route, df, validation, adapter_calls, response,
                   startup_vars, after_rejection, account_vars>>

\* lines 186-229 of predict, in the thread of request r
PredictStep(r) ==
    /\ requests[r].pc = "validated"
    /\ LET window == requests[r].validation.cleaned
           result == predict_from_window(predictor, window)
       IN  /\ requests' = [requests EXCEPT ![r] =
                  [@ EXCEPT !.pc = "responded",
                            !.adapter_calls = <<AdapterCall(window, result)>>,
                            !.response =
                                IF result.raised
                                THEN ErrorResponse(500, PredictionError(result.error))
                                ELSE [NoResponse EXCEPT !.status = 200, !.kind = "prediction",
                                                        !.result = result.result]]]
           /\ predictor' = predict_effect(predictor, window)
    /\ UNCHANGED <<phase, route, df, validation, adapter_calls, response,
                   startup_vars, after_rejection, account_vars>>

NextConcurrent ==
    \/ \E r \in 1..MaxRequests : ValidateStep(r)
    \/ \E r \in 1..MaxRequests : PredictStep(r)

SpecConcurrent == InitConcurrent /\ [][NextConcurrent]_vars

(***************************************************************************)
(* validate_csv_window on its own: any table (or None) is handed to it     *)
(* with the loaded configuration.                                          *)
(***************************************************************************)
DefaultPredictor ==
    CHOOSE p \in Predictors : p.model = "last_target" /\ p.scaler.scale_[1] = 2

InitValidator ==
    /\ predictor = DefaultPredictor
    /\ phase = "start"
    /\ route = "validate_csv_window"
    /\ \/ df = None
       \/ \E F \in FaultSets(MaxFaults) : df = TableOf(F)
    /\ validation = NotValidated
    /\ adapter_calls = <<>>
    /\ response = NoResponse
    /\ artifacts \in {dir \in ServableDirs : _load_artifacts(dir).self = predictor}
    /\ load_attempts = _load_artifacts(artifacts).attempts
    /\ after_rejection = FALSE
    /\ requests = <<>>
    /\ FreshDatabase

Validate ==
    /\ phase = "start"
    /\ route = "validate_csv_window"
    /\ validation' = Validated(validate_csv_window(df, predictor.selected_features,
                         predictor.config.target_col, predictor.config.lookback))
    /\ predictor' = validate_effect(predictor)
    /\ phase' = "done"
    /\ UNCHANGED <<route, df, adapter_calls, response,
                   startup_vars, after_rejection, requests, account_vars>>

NextValidator == Validate

SpecValidator == InitValidator /\ [][NextValidator]_vars

(***************************************************************************)
(* predict_from_window on its own: any table, validated or not, is handed  *)
(* to a loaded predictor. The tables validate_csv_window returns are among *)
(* them: an accepted upload with no unrecognised column and its columns in *)
(* column_order comes back as it is.                                       *)
(***************************************************************************)
InitAdapter ==
    /\ \E F \in FaultSets(MaxFaults) : df = TableOf(F)
    /\ predictor \in Predictors
    /\ phase = "start"
    /\ route = "predict_from_window"
    /\ validation = NotValidated
    /\ adapter_calls = <<>>
    /\ response = NoResponse
    /\ artifacts \in {dir \in ServableDirs : _load_artifacts(dir).self = predictor}
    /\ load_attempts = _load_artifacts(artifacts).attempts
    /\ after_rejection = FALSE
    /\ requests = <<>>
    /\ FreshDatabase

CallAdapter ==
    /\ phase = "start"
    /\ route = "predict_from_window"
    /\ adapter_calls' = <<AdapterCall(df, predict_from_window(predictor, df))>>
    /\ predictor' = predict_effect(predictor, df)
    /\ phase' = "done"
    /\ UNCHANGED <<route, df, validation, response,
                   startup_vars, after_rejection, requests, account_vars>>

NextAdapter == CallAdapter

SpecAdapter == InitAdapter /\ [][NextAdapter]_vars

(***************************************************************************)
(* The two steps of /predict under a config.json whose lookback need not   *)
(* be the 24 of the shipped model: validate_csv_window is given            *)
(* predictor.config['lookback'], and the table it returns is handed to     *)
(* predict_from_window.                                                    *)
(***************************************************************************)
\* the values of "lookback" in config.json
Lookbacks == (Lookback - MaxRowDelta) .. (Lookback + MaxRowDelta)

InitLookback ==
    /\ \E n \in Lookbacks :
         artifacts \in {[dir EXCEPT !.config.config.lookback = n] :
                           dir \in {d \in ServableDirs :
                                       _load_artifacts(d).self = DefaultPredictor}}
    /\ predictor = _load_artifacts(artifacts).self
    /\ load_attempts = _load_artifacts(artifacts).attempts
    /\ phase = "start"
    /\ route = "validate_csv_window"
    /\ \/ df = None
       \/ \E F \in FaultSets(MaxFaults) : df = TableOf(F)
    /\ validation = NotValidated
    /\ adapter_calls = <<>>
    /\ response = NoResponse
    /\ after_rejection = FALSE
    /\ requests = <<>>
    /\ FreshDatabase

\* lines 183-187 of predict: an accepted table goes on to the adapter
PredictValidated ==
    /\ phase = "done"
    /\ route = "validate_csv_window"
    /\ validation.is_valid
    /\ adapter_calls' = <<AdapterCall(validation.cleaned,
                                      predict_from_window(predictor, validation.cleaned))>>
    /\ predictor' = predict_effect(predictor, validation.cleaned)
    /\ phase' = "predicted"
    /\ route' = "predict_from_window"
    /\ UNCHANGED <<df, validation, response,
                   startup_vars, after_rejection, requests, account_vars>>

NextLookback == Validate \/ PredictValidated

SpecLookback == InitLookback /\ [][NextLookback]_vars


(***************************************************************************)
(* Properties.                                                             *)
(***************************************************************************)
required_columns == column_order

\* the required columns the table does not have
MissingIn(t) == {c \in Range(required_columns) : c \notin Range(t.columns)}

HasAllRequired(t) == t.present /\ MissingIn(t) = {}

\* the required columns of t holding a cell that is not a number
NonNumericColumns(t) ==
    {c \in Range(required_columns) \cap Range(t.columns) :
        \E i \in 1..t.nrows : t.cells[c][i].k # "num"}

\* the out-of-range cells of t, as <<column, row>>
OutOfRangeCells(t) ==
    {<<c, i>> \in (Range(required_columns) \cap Range(t.columns)) \X (1..t.nrows) :
        /\ t.cells[c][i].k = "num"
        /\ (t.cells[c][i].v < RangeOf(c).min_val \/ t.cells[c][i].v > RangeOf(c).max_val)}

ValidatorDone == route = "validate_csv_window" /\ phase = "done"

AdapterDone == route = "predict_from_window" /\ phase = "done"

\* C1 (as claimed): every predict_from_window call of a request is made on the
\* table validate_csv_window accepted in that same request.
C1_AdapterOnlyAfterValidation ==
    \A i \in 1..Len(adapter_calls) :
        /\ validation.called
        /\ validation.is_valid
        /\ adapter_calls[i].window = validation.cleaned

\* C2 (as claimed): every table whose row count differs from 24, zero rows
\* included, is rejected with a message naming the actual and the expected count.
C2_EveryRowCountNamed ==
    (ValidatorDone /\ df.present /\ len(df) # 24) =>
        /\ ~validation.is_valid
        /\ validation.error_message.kind = "row_count"
        /\ validation.error_message.found = len(df)
        /\ validation.error_message.expected = 24
        /\ validation.cleaned = None

\* C2 (amended): a table with a row count other than 24 and other than 0 is
\* rejected with the row-count message naming the actual count and 24; a table
\* with no rows (or no table) is rejected as empty; in both cases no table is
\* returned, so nothing is truncated or padded.
C2_RowCountRejected ==
    (ValidatorDone /\ len(df) # 24) =>
        /\ ~validation.is_valid
        /\ validation.cleaned = None
        /\ IF len(df) = 0
           THEN validation.error_message = EmptyMessage
           ELSE /\ validation.error_message.kind = "row_count"
                /\ validation.error_message.found = len(df)
                /\ validation.error_message.expected = 24

C2_Witness ==
    /\ ValidatorDone
    /\ len(df) = 25
    /\ validation.error_message.kind = "row_count"
    /\ validation.error_message.found = 25

\* C3: a 24-row table lacking required columns is rejected, and the rejection
\* lists exactly the missing required columns, each once.
C3_MissingColumnsNamed ==
    (ValidatorDone /\ df.present /\ len(df) = 24 /\ MissingIn(df) # {}) =>
        /\ ~validation.is_valid
        /\ validation.error_message.kind = "missing_columns"
        /\ Range(validation.error_message.columns) = MissingIn(df)
        /\ Len(validation.error_message.columns) = Cardinality(MissingIn(df))

C3_Witness ==
    /\ ValidatorDone
    /\ len(df) = 24
    /\ Cardinality(MissingIn(df)) = 2
    /\ validation.error_message.kind = "missing_columns"

\* C4: a fully numeric 24-row table with every value inside its column's
\* inclusive range is accepted, and the returned table has 24 rows and exactly
\* the column_order columns in that order, with the uploaded values.
C4_InRangeAccepted ==
    (/\ ValidatorDone
     /\ len(df) = 24
     /\ HasAllRequired(df)
     /\ NonNumericColumns(df) = {}
     /\ OutOfRangeCells(df) = {}) =>
        /\ validation.is_valid
        /\ validation.error_message = NoMessage
        /\ validation.cleaned.nrows = 24
        /\ validation.cleaned.columns =
              <<"Global_intensity", "Sub_metering_3", "Voltage",
                "Global_reactive_power", "Sub_metering_2", "Global_active_power">>
        /\ DOMAIN validation.cleaned.cells = Range(column_order)
        /\ \A c \in Range(column_order) : validation.cleaned.cells[c] = df.cells[c]

\* an accepted table holding a value equal to a minimum and one equal to a
\* maximum, uploaded with its columns out of order
C4_Witness ==
    /\ ValidatorDone
    /\ validation.is_valid
    /\ df.columns # column_order
    /\ \E c \in Range(column_order) :
          /\ df.cells[c][1].v = RangeOf(c).min_val
          /\ df.cells[c][24].v = RangeOf(c).max_val

\* C5: an otherwise valid 24-row window with a single cell outside its
\* column's range is rejected with a reason naming that column.
C5_SingleCellOutOfRange ==
    (/\ ValidatorDone
     /\ len(df) = 24
     /\ HasAllRequired(df)
     /\ NonNumericColumns(df) = {}
     /\ Cardinality(OutOfRangeCells(df)) = 1) =>
        /\ ~validation.is_valid
        /\ validation.cleaned = None
        /\ validation.error_message.kind = "range"
        /\ \A cell \in OutOfRangeCells(df) : validation.error_message.columns = <<cell[1]>>

\* the target column's history pushed below its minimum
C5_Witness ==
    /\ ValidatorDone
    /\ len(df) = 24
    /\ OutOfRangeCells(df) = {<<"Global_active_power", 12>>}
    /\ validation.error_message.kind = "range"
    /\ validation.error_message.columns = <<"Global_active_power">>


\* the checks a table violates, each judged on the table alone
ViolatesEmpty(t) == ~t.present \/ t.nrows = 0
ViolatesRowCount(t) == t.nrows # 24
ViolatesColumns(t) == MissingIn(t) # {}
ViolatesNumeric(t) == NonNumericColumns(t) # {}
ViolatesRange(t) == OutOfRangeCells(t) # {}

ViolatedChecks(t) ==
    {k \in {"empty", "row_count", "missing_columns", "nan", "range"} :
        CASE k = "empty"           -> ViolatesEmpty(t)
          [] k = "row_count"       -> ViolatesRowCount(t)
          [] k = "missing_columns" -> ViolatesColumns(t)
          [] k = "nan"             -> ViolatesNumeric(t)
          [] k = "range"           -> ViolatesRange(t)}

CheckOrder == <<"empty", "row_count", "missing_columns", "nan", "range">>

\* C6: the checks run in the order empty, row count, missing columns,
\* numeric/missing values, range, and stop at the first that fails: the one
\* reason returned is that of the earliest violated check, with no table.
C6_FirstFailingCheckReported ==
    ValidatorDone =>
        LET violated == ViolatedChecks(df) IN
        violated # {} =>
            /\ ~validation.is_valid
            /\ validation.cleaned = None
            /\ validation.error_message.kind \in violated
            /\ \A i, j \in 1..Len(CheckOrder) :
                  (i < j /\ CheckOrder[j] = validation.error_message.kind)
                      => CheckOrder[i] \notin violated

\* a table with both a missing value and an out-of-range value
C6_Witness ==
    /\ ValidatorDone
    /\ {"nan", "range"} \subseteq ViolatedChecks(df)
    /\ validation.error_message.kind = "nan"

\* C7: in a 24-row table with all required columns, a cell that is missing or
\* not a number does not fail the coercion; the table is rejected with one
\* reason listing every required column that holds such a cell, each once.
C7_EveryMissingValueColumnNamed ==
    (/\ ValidatorDone
     /\ len(df) = 24
     /\ HasAllRequired(df)
     /\ NonNumericColumns(df) # {}) =>
        /\ ~validation.is_valid
        /\ validation.cleaned = None
        /\ validation.error_message.kind = "nan"
        /\ Range(validation.error_message.columns) = NonNumericColumns(df)
        /\ Len(validation.error_message.columns) = Cardinality(NonNumericColumns(df))

\* two columns hold a missing value: one a blank, one unparseable text
C7_Witness ==
    /\ ValidatorDone
    /\ Cardinality(NonNumericColumns(df)) = 2
    /\ \E c \in NonNumericColumns(df) : \E i \in 1..df.nrows : df.cells[c][i] = Text
    /\ \E c \in NonNumericColumns(df) : \E i \in 1..df.nrows : df.cells[c][i] = Blank
    /\ Len(validation.error_message.columns) = 2

\* the table with the columns at positions i and j exchanged
SwapColumns(t, i, j) ==
    [t EXCEPT !.columns = [k \in 1..Len(t.columns) |->
                              IF k = i THEN t.columns[j]
                              ELSE IF k = j THEN t.columns[i] ELSE t.columns[k]]]

\* the table with one more unrecognised column, filled with cell
WithExtraColumn(t, name, cell) ==
    [t EXCEPT !.columns = <<name>> \o t.columns,
              !.cells = [c \in DOMAIN t.cells \cup {name} |->
                            IF c = name THEN [i \in 1..t.nrows |-> cell] ELSE t.cells[c]]]

\* the table without its unrecognised columns
WithoutExtraColumns(t) ==
    LET kept == SelectSeq(t.columns, LAMBDA c : c \in Range(required_columns))
    IN  [t EXCEPT !.columns = kept, !.cells = [c \in Range(kept) |-> t.cells[c]]]

ValidateWithConfig(t) ==
    Validated(validate_csv_window(t, predictor.selected_features,
                  predictor.config.target_col, predictor.config.lookback))

\* C8: the outcome (verdict, reason, cleaned table) is the same for the table
\* with two neighbouring columns exchanged (the exchanges that generate every
\* permutation) or all columns reversed, with an unrecognised column added
\* (whatever it holds) and with its unrecognised columns removed; an accepted
\* table comes back without any unrecognised column.
C8_ColumnOrderAndExtrasIrrelevant ==
    (ValidatorDone /\ df.present) =>
        /\ \A i \in 1..(Len(df.columns) - 1) :
              ValidateWithConfig(SwapColumns(df, i, i + 1)) = validation
        /\ ValidateWithConfig([df EXCEPT !.columns = Reverse(df.columns)]) = validation
        /\ \A cell \in {Text, Blank, Num(-1), Num(1000)} :
              ValidateWithConfig(WithExtraColumn(df, "Datetime", cell)) = validation
        /\ ValidateWithConfig(WithoutExtraColumns(df)) = validation
        /\ validation.is_valid => Range(validation.cleaned.columns) = Range(required_columns)

\* an accepted upload that carries an unrecognised column and is out of order
C8_Witness ==
    /\ ValidatorDone
    /\ validation.is_valid
    /\ Range(df.columns) \ Range(required_columns) # {}
    /\ WithoutExtraColumns(df).columns # column_order

\* C9 (as claimed): a window that does not have exactly 24 rows and exactly the
\* 6 column_order columns fails before the scaler or the model is invoked.
C9_AnyOtherShapeRejected ==
    (AdapterDone /\ ~(len(df) = 24 /\ Range(df.columns) = Range(column_order))) =>
        /\ adapter_calls[1].outcome.raised
        /\ adapter_calls[1].outcome.transform_calls = 0
        /\ adapter_calls[1].outcome.predict_calls = 0
        /\ ~adapter_calls[1].outcome.result.present

\* C9 (amended): a window that does not have exactly 24 rows, or lacks one of
\* the 6 column_order columns, fails with an error naming the row count found
\* or the missing columns before the scaler or the model is invoked, and
\* returns no result.
C9_WrongRowsOrMissingColumnRejected ==
    (AdapterDone /\ (len(df) # 24 \/ MissingIn(df) # {})) =>
        /\ adapter_calls[1].outcome.raised
        /\ adapter_calls[1].outcome.error =
              IF len(df) # 24
              THEN AdapterRowsMessage(len(df))
              ELSE AdapterMissingMessage(SelectSeq(column_order, LAMBDA c : c \in MissingIn(df)))
        /\ adapter_calls[1].outcome.transform_calls = 0
        /\ adapter_calls[1].outcome.predict_calls = 0
        /\ adapter_calls[1].outcome.inverse_calls = 0
        /\ adapter_calls[1].outcome.result = NoResult

C9_Witness ==
    /\ AdapterDone
    /\ len(df) = 23
    /\ MissingIn(df) = {}
    /\ adapter_calls[1].outcome.error = AdapterRowsMessage(23)

\* the table is what validate_csv_window returns for itself
IsValidatedWindow(t) ==
    LET v == validate_csv_window(t, selected_features, target_col, Lookback)
    IN  v.is_valid /\ v.cleaned = t

\* C10: for a validated window the result's actual_last_24h_kw is the window's
\* 24 target values in row order, unscaled, and predicted_next_hour_kw equals
\* predicted_power_kw.
C10_HistoryAndDuplicateField ==
    (AdapterDone /\ IsValidatedWindow(df)) =>
        LET result == adapter_calls[1].outcome.result
        IN  /\ ~adapter_calls[1].outcome.raised
            /\ result.present
            /\ Len(result.actual_last_24h_kw) = 24
            /\ \A i \in 1..24 :
                  result.actual_last_24h_kw[i] = df.cells["Global_active_power"][i]
            /\ result.predicted_next_hour_kw = result.predicted_power_kw

\* a validated window whose target history is not constant, and a prediction
\* that differs from every value of that history
C10_Witness ==
    /\ AdapterDone
    /\ IsValidatedWindow(df)
    /\ df.cells["Global_active_power"][1] # df.cells["Global_active_power"][24]
    /\ adapter_calls[1].outcome.result.present
    /\ \A i \in 1..24 :
          adapter_calls[1].outcome.result.predicted_power_kw # df.cells["Global_active_power"][i]

\* the scaler sc with the scale and offset of every column but the last taken
\* from the scaler other
WithOtherColumnsOf(sc, other) ==
    [sc EXCEPT !.scale_ = [j \in 1..Len(sc.scale_) |->
                             IF j = Len(sc.scale_) THEN sc.scale_[j] ELSE other.scale_[j]],
               !.min_ = [j \in 1..Len(sc.min_) |->
                           IF j = Len(sc.min_) THEN sc.min_[j] ELSE other.min_[j]]]

\* C11: the dummy-row inversion undoes the scaler's transform of the target
\* column: each target value of a validated window, scaled and then inverted
\* through the dummy row, comes back unchanged; the dummy-row inversion of a
\* scaled value equals the inversion of the target column alone, whatever the
\* scale and offset of the other five columns; and a model that returns the
\* last scaled target value yields the window's last target value as prediction.
C11_DummyRowInversion ==
    (AdapterDone /\ IsValidatedWindow(df)) =>
        LET sc == predictor.scaler
            order == predictor.selected_features \o <<predictor.config.target_col>>
            t == Len(order)
            history == df.cells[predictor.config.target_col]
        IN  /\ \A i \in 1..24 :
                  dummy_inverse(predictor, order, transform(sc, t, history[i])) = history[i]
            /\ \A i \in 1..24 : \A other \in Scalers :
                  dummy_inverse([predictor EXCEPT !.scaler = WithOtherColumnsOf(sc, other)],
                                order, transform(sc, t, history[i]))
                      = inverse_transform(sc, t, transform(sc, t, history[i]))
            /\ predictor.model = "last_target" =>
                  adapter_calls[1].outcome.result.predicted_power_kw = history[24]

\* a validated window predicted by the model that returns the last scaled
\* target value, under a scaler that moves that value
C11_Witness ==
    /\ AdapterDone
    /\ IsValidatedWindow(df)
    /\ predictor.model = "last_target"
    /\ transform(predictor.scaler, 6, df.cells["Global_active_power"][24])
          # df.cells["Global_active_power"][24]
    /\ adapter_calls[1].outcome.result.predicted_power_kw = df.cells["Global_active_power"][24]

\* how many times artifact a was loaded at start-up
Attempts(a) == Cardinality({i \in 1..Len(load_attempts) : load_attempts[i] = a})

Serving == phase \notin {"boot", "aborted"}

\* the model directory holds a file that cannot be loaded, or a scaler that
\* was not fitted on exactly 6 columns
BrokenArtifacts(dir) ==
    \/ dir.model.loads = "never"
    \/ ~dir.scaler.loads
    \/ ~dir.config.loads
    \/ ~dir.features.loads
    \/ Len(dir.scaler.scaler.scale_) # 6

\* C16 (as claimed): with a broken artifact the constructor raises and nothing
\* is ever served; the process never serves with a scaler whose feature count
\* is not 6.
C16_BrokenArtifactAbortsStartup ==
    /\ (phase # "boot" /\ BrokenArtifacts(artifacts)) => phase = "aborted"
    /\ Serving => Len(predictor.scaler.scale_) = 6

\* C17 (as claimed): each artifact is loaded at most once at start-up, and in
\* one request validate_csv_window and predict_from_window are each invoked
\* at most once.
C17_EverythingAttemptedOnce ==
    /\ \A a \in {"model", "scaler", "config", "features"} : Attempts(a) <= 1
    /\ Len(adapter_calls) <= 1

\* C17 (amended): the scaler, the config and the feature list are each loaded
\* at most once and the model at most twice, the second time only after its
\* first load failed; a failed load of anything else is the last load. A
\* /predict or /debug/selftest request calls predict_from_window at most once,
\* after its one validation; /debug/benchmark calls it at most 11 times
\* without validating; in every request a call that raised is the last call.
C17_NoRetryButModelFallbackAndBenchmark ==
    /\ \A a \in {"scaler", "config", "features"} : Attempts(a) <= 1
    /\ Attempts("model") <= 2
    /\ Attempts("model") = 2 =>
          /\ artifacts.model.loads # "first"
          /\ load_attempts[1] = "model" /\ load_attempts[2] = "model"
    /\ phase = "aborted" =>
          LET last == load_attempts[Len(load_attempts)]
          IN  CASE last = "model"    -> artifacts.model.loads = "never"
                [] last = "scaler"   ->
                       \/ ~artifacts.scaler.loads
                       \/ /\ artifacts.scaler.scaler.has_n_features_in_
                          /\ artifacts.scaler.scaler.n_features_in_ # 6
                [] last = "config"   -> ~artifacts.config.loads
                [] last = "features" -> ~artifacts.features.loads
    /\ route \in {"predict", "selftest"} =>
          /\ Len(adapter_calls) <= 1
          /\ adapter_calls # <<>> => validation.called /\ validation.is_valid
    /\ route = "benchmark" => Len(adapter_calls) <= 11 /\ ~validation.called
    /\ \A i \in 1..(Len(adapter_calls) - 1) : ~adapter_calls[i].outcome.raised

\* the model loaded at the second attempt, and a benchmark of 11 calls
C17_Witness ==
    /\ load_attempts = <<"model", "model", "scaler", "config", "features">>
    /\ route = "benchmark"
    /\ Len(adapter_calls) = 11
    /\ ~adapter_calls[11].outcome.raised

\* the predictor as the constructor left it
LoadedPredictor == _load_artifacts(artifacts).self

\* a step of predict_from_window cannot succeed on this window: wrong row
\* count, a missing column, a cell the scaler cannot convert, a scaler fitted
\* on another width, or a model of another input shape
AdapterStepFails(self, window) ==
    \/ window.nrows # 24
    \/ \E c \in Range(column_order) : c \notin Range(window.columns)
    \/ \E c \in Range(column_order) : \E i \in 1..window.nrows : window.cells[c][i].k = "text"
    \/ Len(self.scaler.scale_) # 6
    \/ input_shape(self.model) # <<24, 6>>

\* C13: when a step of predict_from_window fails the call raises and returns
\* no result; the /predict response is then status 500 with the
\* 'Prediction error' message and none of the prediction fields, and nothing
\* is saved to the history.
C13_AdapterFailurePropagated ==
    \A i \in 1..Len(adapter_calls) :
        AdapterStepFails(LoadedPredictor, adapter_calls[i].window) =>
            /\ adapter_calls[i].outcome.raised
            /\ adapter_calls[i].outcome.error.kind \in
                  {"adapter_rows", "adapter_missing", "scaler_transform", "reshape",
                   "model_predict"}
            /\ adapter_calls[i].outcome.result = NoResult
            /\ route = "predict" =>
                  /\ response.status = 500
                  /\ response.kind = "error"
                  /\ response.error = PredictionError(adapter_calls[i].outcome.error)
                  /\ response.error.prefix = "Prediction error: "
                  /\ response.result = NoResult
                  /\ ~response.saved_to_history
                  /\ prediction_runs = {}

\* an accepted upload whose scaling fails: the scaler was fitted on 5 columns
C13_Witness ==
    /\ route = "predict"
    /\ validation.is_valid
    /\ Len(adapter_calls) = 1
    /\ adapter_calls[1].outcome.error = ScalerErrorMessage
    /\ response.status = 500

\* C14: once the process serves, no request handler, and neither
\* validate_csv_window nor predict_from_window within it, succeeding or
\* failing, changes the predictor's model, scaler, config or selected_features.
C14_ArtifactsNeverWritten ==
    [][/\ predictor'.model = predictor.model
       /\ predictor'.scaler = predictor.scaler
       /\ predictor'.config = predictor.config
       /\ predictor'.selected_features = predictor.selected_features]_vars

\* the self-test validated the sample and its prediction failed in the model;
\* the predictor is as loaded
C14_Witness ==
    /\ route = "selftest"
    /\ validation.is_valid
    /\ Len(adapter_calls) = 1
    /\ adapter_calls[1].outcome.error = ModelErrorMessage
    /\ predictor = LoadedPredictor

\* C18: a /predict request rejected by validate_csv_window is answered with
\* status 400 and the validator's one reason, without any adapter call; the
\* process keeps serving, and the request that follows a rejection is
\* validated and predicted as by the freshly loaded predictor.
C18_RejectionIsNotFatal ==
    /\ (route = "predict" /\ validation.called /\ ~validation.is_valid) =>
          /\ response.status = 400
          /\ response.kind = "error"
          /\ response.error = validation.error_message
          /\ response.error.kind \in {"empty", "row_count", "missing_columns", "nan", "range"}
          /\ response.result = NoResult
          /\ adapter_calls = <<>>
    /\ after_rejection =>
          /\ phase \in {"idle", "responded"}
          /\ predictor = LoadedPredictor
    /\ (after_rejection /\ route = "predict" /\ validation.called) =>
          /\ validation = Validated(validate_csv_window(df, selected_features, target_col, 24))
          /\ validation.is_valid =>
                /\ adapter_calls = <<AdapterCall(validation.cleaned,
                          predict_from_window(LoadedPredictor, validation.cleaned))>>
                /\ response.status = IF adapter_calls[1].outcome.raised THEN 500 ELSE 200
                /\ response.result = adapter_calls[1].outcome.result

\* a prediction delivered to the request that follows a rejected one
C18_Witness ==
    /\ after_rejection
    /\ route = "predict"
    /\ validation.is_valid
    /\ response.status = 200
    /\ response.result.present

C15_InterleavingInvisible ==
    \A r \in DOMAIN requests :
        LET alone == predict_upload(LoadedPredictor, requests[r].df)
        IN  /\ requests[r].pc # "received" => requests[r].validation = alone.validation
            /\ requests[r].pc = "responded" =>
                  /\ requests[r].adapter_calls = alone.adapter_calls
                  /\ requests[r].response = alone.response

\* one request validated and not yet predicted while another has been
\* answered with a prediction and a third rejected
C15_Witness ==
    \E r1, r2, r3 \in DOMAIN requests :
        /\ requests[r1].pc = "validated"
        /\ requests[r2].pc = "responded" /\ requests[r2].response.status = 200
        /\ requests[r3].pc = "responded" /\ requests[r3].response.status = 400

\* C19: get_prediction_run_by_id(run_id, user_id) returns a run only when the
\* run's user_id is the given one, and whatever clients register, log in,
\* predict, log out or administer, the run that /history/<run_id> shows or
\* /history/<run_id>/download serves belongs to the user_id of the requesting
\* session, an id that names one account only.
C19_OnlyOwnRunsShown ==
    /\ \A run_id \in RunIds, user_id \in UserIds :
          \A r \in get_prediction_run_by_id(run_id, user_id) :
              r.id = run_id /\ r.user_id = user_id
    /\ (phase = "responded" /\ route \in {"history_detail", "download_csv"}
        /\ response.run # NoRun) =>
          /\ is_logged_in(sessions[response.client])
          /\ response.run \in prediction_runs
          /\ response.run.user_id = get_current_user_id(sessions[response.client])
    /\ \A c \in Clients : is_logged_in(sessions[c]) =>
          /\ \A u \in users : u.id = sessions[c].user_id => u.email = sessions[c].email
          /\ \A d \in Clients : (is_logged_in(sessions[d])
                                   /\ sessions[d].user_id = sessions[c].user_id) =>
                                      sessions[d].email = sessions[c].email

\* a client is shown its own run while the other client is logged in as
\* another user
C19_Witness ==
    /\ phase = "responded"
    /\ route = "history_detail"
    /\ response.run # NoRun
    /\ \E c \in Clients :
          /\ c # response.client
          /\ is_logged_in(sessions[c])
          /\ sessions[c].user_id # response.run.user_id

AdminRoutes ==
    {"admin_dashboard", "admin_users", "admin_delete_user", "admin_predictions",
     "admin_prediction_detail", "admin_delete_prediction"}

\* C20: a request to an admin route from a session without user_id is
\* redirected to login, one from a session whose is_admin is not true is
\* redirected to index, and in both cases the database is left as it was; the
\* body of the route runs only for a session with user_id and is_admin.
C20_AdminGate ==
    [][(phase = "idle" /\ phase' = "responded" /\ route' \in AdminRoutes) =>
          LET c == response'.client
              session == sessions[c]
          IN  /\ ~session.has_user_id =>
                    /\ response' = Redirect(c, "login")
                    /\ UNCHANGED account_vars
              /\ (session.has_user_id /\ ~session.is_admin) =>
                    /\ response' = Redirect(c, "index")
                    /\ UNCHANGED account_vars
              /\ (\/ response'.location \notin {"login", "index"}
                  \/ <<users, prediction_runs, sqlite_sequence>>' #
                       <<users, prediction_runs, sqlite_sequence>>) =>
                    session.has_user_id /\ session.is_admin]_vars

\* a logged-in user who is no administrator asked to delete a user and was
\* sent to index, while runs of that session's user are on record
C20_Witness ==
    /\ phase = "responded"
    /\ route = "admin_delete_user"
    /\ response = Redirect(response.client, "index")
    /\ is_logged_in(sessions[response.client])
    /\ ~is_admin(sessions[response.client])
    /\ \E r \in prediction_runs : r.user_id = sessions[response.client].user_id

\* C21: delete_user_admin(user_id) fails and leaves users and prediction_runs
\* as they are when user_id is unknown or names a user whose is_admin is set;
\* for any other user it removes that user and every run of that user, keeps
\* every other user and every run of other users, and reports as
\* predictions_deleted the number of runs it removed.
C21_DeleteUserSparesAdmins ==
    \A user_id \in UserIds :
        LET out == delete_user_admin(user_id)
            target == {u \in users : u.id = user_id}
        IN  IF target = {} \/ \E u \in target : u.is_admin # 0
            THEN /\ ~out.success
                 /\ out.error # ""
                 /\ out.users = users
                 /\ out.prediction_runs = prediction_runs
            ELSE /\ out.success
                 /\ out.users \subseteq users
                 /\ out.prediction_runs \subseteq prediction_runs
                 /\ \A u \in users : u \in out.users <=> u.id # user_id
                 /\ \A r \in prediction_runs : r \in out.prediction_runs <=> r.user_id # user_id
                 /\ out.predictions_deleted =
                        Cardinality(prediction_runs \ out.prediction_runs)

\* an administrator has deleted a user who had a run on record, and has been
\* told so
C21_Witness ==
    /\ phase = "responded"
    /\ route = "admin_delete_user"
    /\ response.flash.category = "success"
    /\ response.flash.predictions_deleted >= 1
    /\ \A u \in users : u.email # response.flash.email
    /\ \E u \in users : u.is_admin # 0

\* C22: whatever registrations the clients make, in whatever order, no two
\* users share an email; create_user returns None and inserts nothing for an
\* email that is registered, and otherwise inserts one row that is no
\* administrator's; the session a registration opens is no administrator's.
C22_EmailsUnique ==
    /\ \A u1, u2 \in users : (u1.email = u2.email \/ u1.id = u2.id) => u1 = u2
    /\ \A email \in Emails \cup {AdminUser.email} :
          LET out == create_user(email, generate_password_hash("hunter22"))
          IN  IF \E u \in users : u.email = email
              THEN /\ out.user_id = 0
                   /\ out.users = users
                   /\ out.sqlite_sequence = sqlite_sequence
              ELSE /\ out.user_id \notin {u.id : u \in users} \cup {0}
                   /\ users \subseteq out.users
                   /\ \A u \in out.users \ users :
                         u.id = out.user_id /\ u.email = email /\ u.is_admin = 0
                   /\ Cardinality(out.users \ users) = 1
    /\ \A u \in users : u.is_admin # 0 => u = AdminUser
    /\ (phase = "responded" /\ route = "register" /\ response.flash.category = "success") =>
          LET session == sessions[response.client]
          IN  /\ is_logged_in(session)
              /\ ~session.is_admin
              /\ \E u \in users : /\ u.id = session.user_id
                                   /\ u.email = session.email
                                   /\ u.is_admin = 0

\* a registration with the email of a registered user was turned down while
\* the other client holds the session that user's registration opened
C22_Witness ==
    /\ phase = "responded"
    /\ route = "register"
    /\ response.flash.text = "Email already registered. Please log in."
    /\ \E c \in Clients :
          /\ c # response.client
          /\ is_logged_in(sessions[c])
          /\ ~sessions[c].is_admin
          /\ \E u \in users : u.id = sessions[c].user_id /\ u.email = sessions[c].email

\* C23: saving to the history never fails a prediction. The response of
\* /predict is the one validation and prediction alone give, whatever happens
\* to the file and the row; saved_to_history is true exactly when the client
\* is logged in, the file was written and the row inserted; a request
\* without a logged-in session persists nothing.
C23_HistoryNeverFailsPrediction ==
    [][(phase = "idle" /\ phase' = "responded" /\ route' = "predict") =>
          LET session == sessions[response'.client]
              predicted == adapter_calls' # <<>> /\ ~adapter_calls'[1].outcome.raised
              inserted == prediction_runs' \ prediction_runs
              written(r) == \E f \in uploads' : f.path = r.csv_file_path /\ f.content = df'
          IN  /\ predicted =>
                    /\ response'.status = 200
                    /\ response'.result.present
                    /\ response'.result = adapter_calls'[1].outcome.result
              /\ ~predicted => response'.status \in {400, 500}
              /\ response'.saved_to_history <=>
                    /\ response'.status = 200
                    /\ is_logged_in(session)
                    /\ \E r \in inserted : r.user_id = session.user_id /\ written(r)
              /\ ~response'.saved_to_history =>
                    /\ inserted = {}
                    /\ sqlite_sequence' = sqlite_sequence
              /\ ~is_logged_in(session) => uploads' = uploads
              /\ prediction_runs \subseteq prediction_runs']_vars

\* a logged-in client got its full prediction although the row could not be
\* inserted: the file is there, no run refers to it
C23_Witness ==
    /\ phase = "responded"
    /\ route = "predict"
    /\ response.status = 200
    /\ response.result.present
    /\ ~response.saved_to_history
    /\ is_logged_in(sessions[response.client])
    /\ \E f \in uploads :
          /\ f.path.user_id = sessions[response.client].user_id
          /\ f.path.timestamp = clock
          /\ f.content = df
          /\ \A r \in prediction_runs : r.csv_file_path # f.path

\* C27: every saved run refers to a stored file that holds the CSV uploaded
\* in the run's request, and no two runs refer to one path.
C27_EveryRunItsOwnFile ==
    /\ \A r \in prediction_runs :
          \E f \in uploads :
              /\ f.path = r.csv_file_path
              /\ actual_last_24h(f.content, target_col) = r.last24_json
    /\ \A r1, r2 \in prediction_runs : r1.csv_file_path = r2.csv_file_path => r1 = r2

\* the columns of t that have a cell outside their range
OutOfRangeColumns(t) == {cell[1] : cell \in OutOfRangeCells(t)}

\* the first of them in the order of the range table
FirstOutOfRange(t) ==
    ranges[CHOOSE i \in 1..Len(ranges) :
              /\ ranges[i].col \in OutOfRangeColumns(t)
              /\ \A j \in 1..(i - 1) : ranges[j].col \notin OutOfRangeColumns(t)]

\* C24: a window of 24 rows with all required columns and only numbers, some
\* of them out of range, is rejected with a reason that names one column, the
\* first out-of-range one in the order of the range table whatever the order
\* of the columns in the file, and the number of that column's rows below the
\* minimum or above the maximum.
C24_FirstOutOfRangeColumnAndCount ==
    (/\ ValidatorDone
     /\ len(df) = 24
     /\ HasAllRequired(df)
     /\ NonNumericColumns(df) = {}
     /\ OutOfRangeCells(df) # {}) =>
        LET first == FirstOutOfRange(df)
        IN  /\ ~validation.is_valid
            /\ validation.error_message.kind = "range"
            /\ validation.error_message.columns = <<first.col>>
            /\ validation.error_message.bad_rows =
                   Cardinality({cell \in OutOfRangeCells(df) : cell[1] = first.col})
            /\ validation.error_message.min_val = first.min_val
            /\ validation.error_message.max_val = first.max_val

\* two columns out of range: the one named has two bad rows, the other,
\* later in the range table, is not mentioned
C24_Witness ==
    /\ ValidatorDone
    /\ len(df) = 24
    /\ Cardinality(OutOfRangeColumns(df)) = 2
    /\ validation.error_message.kind = "range"
    /\ validation.error_message.bad_rows = 2
    /\ \E c \in OutOfRangeColumns(df) : validation.error_message.columns # <<c>>

GatedRoutes == {"history", "history_detail", "download_csv"} \cup AdminRoutes

\* C25: a session carries is_admin only together with user_id; logout leaves
\* the client's session without user_id and without is_admin; a request to a
\* route behind login_required or admin_required by a session without
\* user_id is redirected to login and changes nothing; a session gets a
\* user_id only by a successful login or registration of its client; a login
\* that fails leaves every session as it was.
C25_SessionStateMachine ==
    [][/\ \A c \in Clients : sessions'[c].is_admin => sessions'[c].has_user_id
       /\ \A c \in Clients : is_admin(sessions'[c]) => is_logged_in(sessions'[c])
       /\ (phase = "idle" /\ phase' = "responded") =>
             LET c == response'.client
             IN  /\ route' = "logout" =>
                       /\ ~is_logged_in(sessions'[c])
                       /\ ~is_admin(sessions'[c])
                       /\ sessions'[c] = NoSession
                 /\ (route' \in GatedRoutes /\ ~is_logged_in(sessions[c])) =>
                       /\ response' = Redirect(c, "login")
                       /\ UNCHANGED account_vars
                 /\ \A d \in Clients :
                       (~is_logged_in(sessions[d]) /\ is_logged_in(sessions'[d])) =>
                           /\ d = c
                           /\ route' \in {"login", "register"}
                           /\ response'.flash.category = "success"
                 /\ (route' = "login" /\ response'.flash.category # "success") =>
                       sessions' = sessions]_vars

\* after a logout nobody is logged in, and the client whose account is on
\* record is sent from /history to login
C25_Witness ==
    /\ phase = "responded"
    /\ route = "history"
    /\ response = Redirect(response.client, "login")
    /\ \E u \in users : u.is_admin = 0
    /\ \A c \in Clients : sessions[c] = NoSession

\* C26: every row of prediction_runs belongs to a user on record: its
\* user_id is the id of a row of users.
C26_EveryRunHasItsUser ==
    \A r \in prediction_runs : \E u \in users : u.id = r.user_id

\* C28: whatever lookback the loaded config.json carries, a table accepted
\* by validate_csv_window is not turned down by predict_from_window for its
\* number of rows or for a missing column.
C28_AcceptedWindowPassesAdapterChecks ==
    \A i \in DOMAIN adapter_calls :
        (validation.is_valid /\ adapter_calls[i].window = validation.cleaned) =>
            ~(/\ adapter_calls[i].outcome.raised
              /\ adapter_calls[i].outcome.error.kind \in {"adapter_rows", "adapter_missing"})


====
